---- MODULE Spec2Model ----
(***************************************************************************)
(* Model of the auction state machine of saifur-auction: the service       *)
(* operations of src/src/services/voiceAnnouncer.ts (lines 104-832, the    *)
(* auction service revision with relisting) acting on one auction document *)
(* and its participant records, the pure queue builder of                  *)
(* src/src/utils/players.ts, and the callers of src/src/App.tsx.           *)
(*                                                                         *)
(* Every runTransaction body is one atomic action (the store serialises    *)
(* and retries transactions).  Every await between two store round trips   *)
(* of one call is an interleaving point: the call's position is kept in    *)
(* calls[caller].                                                          *)
(*                                                                         *)
(* The collection of auction documents is kept in auctions, each document  *)
(* by its name and nameLower; createAuction calls that are between their   *)
(* query and their addDoc are kept in creating[creator].  SpecOpen follows *)
(* the auction from createAuction's addDoc, with the admin's setDoc still  *)
(* to come; the other specifications start when both are written.          *)
(*                                                                         *)
(* Left out because no control flow reads them: updatedAt, createdAt,      *)
(* joinedAt, startedAt, resolvedAt, bidderName/winnerName, adminName and   *)
(* visibility of the auction.                                              *)
(* A nullable value is the empty tuple (null) or a one-element tuple.      *)
(***************************************************************************)
EXTENDS Integers, Sequences, FiniteSets, TLC

VARIABLES auction, participants, calls, now, auctions, creating

vars == <<auction, participants, calls, now, auctions, creating>>

----------------------------------------------------------------------------
(* Bounds of the model *)

\* largest amount a caller tries to bid
MaxBid == 4
\* calls that may be between two of their store round trips at one time
MaxInFlight == 2
\* the longest ranking order a caller passes to submitRanking
MaxOrderLen == 3
\* the auction documents the collection holds at most
MaxAuctions == 3
\* the clock is read up to this time
MaxNow == 360000
\* the time that passes between two readings of the clock
ClockStepMs == 30000

(* Program constants *)

START_TIMER_MS == 60000
ACTIVE_BID_TIMER_MS == 15000
\* the length a display name is cut to
NAME_LIMIT == 10

CATEGORY_ORDER == <<"A", "B", "C", "D", "E">>

----------------------------------------------------------------------------
(* Values *)

Null == << >>
Some(x) == <<x>>
IsNull(x) == x = << >>
Val(x) == x[1]

Max(a, b) == IF a >= b THEN a ELSE b

\* client identities; the creator of the auction is its admin
Clients == {"p1", "p2", "p3"}
AdminId == "p1"
\* instances of the admin's page (each runs the automation hooks)
Drivers == {"d1", "d2"}
\* the passwords a caller types: the auction's and another
Passwords == {"secret", "guess"}
\* the display name each client joins under
DisplayNameOf ==
  [p1 |-> <<"A", "n", "n">>, p2 |-> <<"B", "o">>, p3 |-> <<"C", "y">>]
Callers == Clients \cup Drivers
\* the users who create further auctions
Creators == {"k1", "k2"}

Idle == [stage |-> "idle"]

RECURSIVE SumPrices(_)
SumPrices(roster) ==
  IF roster = << >> THEN 0
  ELSE roster[1].price + SumPrices(Tail(roster))

----------------------------------------------------------------------------
(* utils/players.ts *)

IndexOfLabel(label) ==
  IF \E i \in 1..Len(CATEGORY_ORDER) : CATEGORY_ORDER[i] = label
  THEN (CHOOSE i \in 1..Len(CATEGORY_ORDER) : CATEGORY_ORDER[i] = label) - 1
  ELSE -1

\* Array.prototype.sort is stable: insert each category after the last one
\* that does not compare greater
RECURSIVE InsertSorted(_, _)
InsertSorted(sorted, category) ==
  IF sorted = << >> THEN <<category>>
  ELSE IF IndexOfLabel(sorted[Len(sorted)].label) - IndexOfLabel(category.label) <= 0
       THEN Append(sorted, category)
       ELSE Append(InsertSorted(SubSeq(sorted, 1, Len(sorted) - 1), category),
                   sorted[Len(sorted)])

RECURSIVE SortCategories(_)
SortCategories(categories) ==
  IF categories = << >> THEN << >>
  ELSE InsertSorted(SortCategories(SubSeq(categories, 1, Len(categories) - 1)),
                    categories[Len(categories)])

CategorySlots(category) ==
  [idx \in 1..Len(category.players) |->
     [key |-> <<category.id, idx - 1>>,
      name |-> category.players[idx],
      categoryLabel |-> category.label,
      basePrice |-> category.basePrice]]

RECURSIVE FlatMapSlots(_)
FlatMapSlots(categories) ==
  IF categories = << >> THEN << >>
  ELSE CategorySlots(categories[1]) \o FlatMapSlots(Tail(categories))

buildPlayerQueue(categories) ==
  IF Len(categories) = 0 THEN << >>
  ELSE FlatMapSlots(SortCategories(categories))

----------------------------------------------------------------------------
(* createAuction: the state after construction *)

\* a display name is a sequence of characters
IsSpace(ch) == ch = " "

\* String.prototype.trim
RECURSIVE trim(_)
trim(text) ==
  IF text = << >> THEN << >>
  ELSE IF IsSpace(text[1]) THEN trim(Tail(text))
  ELSE IF IsSpace(text[Len(text)]) THEN trim(SubSeq(text, 1, Len(text) - 1))
  ELSE text

\* String.prototype.slice(0, end)
slice(text, end) == SubSeq(text, 1, IF Len(text) < end THEN Len(text) ELSE end)

\* displayName.trim().slice(0, 10)
safeNameOf(displayName) == slice(trim(displayName), NAME_LIMIT)

UpperCase ==
  <<"A", "B", "C", "D", "E", "F", "G", "H", "I", "J", "K", "L", "M",
    "N", "O", "P", "Q", "R", "S", "T", "U", "V", "W", "X", "Y", "Z">>

LowerCase ==
  <<"a", "b", "c", "d", "e", "f", "g", "h", "i", "j", "k", "l", "m",
    "n", "o", "p", "q", "r", "s", "t", "u", "v", "w", "x", "y", "z">>

lowerChar(ch) ==
  IF \E i \in 1..Len(UpperCase) : UpperCase[i] = ch
  THEN LowerCase[CHOOSE i \in 1..Len(UpperCase) : UpperCase[i] = ch]
  ELSE ch

\* String.prototype.toLowerCase
toLowerCase(text) == [i \in 1..Len(text) |-> lowerChar(text[i])]

\* player.trim() of a player name: the names are atoms, the blank ones trim
\* to the empty name
trimPlayer(player) == IF player \in {"", " "} THEN "" ELSE player

HasName(player) == player # ""

HasPlayers(category) == Len(category.players) > 0

\* the categories with their blank player names dropped, those left with no
\* player dropped
normalizedCategories(categories) ==
  SelectSeq([i \in 1..Len(categories) |->
               [categories[i] EXCEPT !.players =
                  SelectSeq([j \in 1..Len(categories[i].players) |->
                               trimPlayer(categories[i].players[j])],
                            HasName)]],
            HasPlayers)

\* the document of the collection as the name query sees it
nameEntry(auctionName) ==
  [name |-> trim(auctionName), nameLower |-> toLowerCase(trim(auctionName))]

\* the checks of createAuction against the documents its query returns
createAuctionError(docs, input) ==
  IF trim(input.auctionName) = << >> THEN "Auction name is required."
  ELSE IF \E i \in 1..Len(docs) :
            docs[i].nameLower = toLowerCase(trim(input.auctionName))
       THEN "Auction name already exists, try a different one."
       ELSE IF Len(normalizedCategories(input.categories)) = 0
            THEN "Add at least one player to create an auction."
            ELSE "ok"

NewParticipant(name, role, budgetPerPlayer, playersPerTeam) ==
  [name |-> name,
   role |-> role,
   budgetRemaining |-> budgetPerPlayer,
   playersNeeded |-> playersPerTeam,
   roster |-> << >>,
   hasSubmittedTeam |-> FALSE,
   rankingSubmitted |-> FALSE,
   rankings |-> {},
   finalRoster |-> Null]

createAuction(input) ==
  [name |-> trim(input.auctionName),
   nameLower |-> toLowerCase(trim(input.auctionName)),
   password |-> input.password,
   maxParticipants |-> input.maxParticipants,
   participantCount |-> 1,
   playersPerTeam |-> input.playersPerTeam,
   budgetPerPlayer |-> input.budgetPerPlayer,
   categories |-> normalizedCategories(input.categories),
   status |-> "lobby",
   currentPlayerIndex |-> -1,
   countdownEndsAt |-> Null,
   countdownDuration |-> Some(START_TIMER_MS),
   activeBid |-> Null,
   skipVotes |-> {},
   isPaused |-> FALSE,
   pausedRemainingMs |-> Null,
   manualPlayer |-> Null,
   manualSourceId |-> Null,
   finalizationOpen |-> FALSE,
   completedPlayers |-> << >>,
   results |-> << >>]


\* trx.update(ref, fields): the named fields are replaced, the rest is kept
Merge(doc, fields) ==
  [k \in DOMAIN doc |-> IF k \in DOMAIN fields THEN fields[k] ELSE doc[k]]

Present(c) == ~IsNull(participants[c])
Part(c) == Val(participants[c])

InFlight == Cardinality({c \in Callers : calls[c] # Idle})
\* the caller can begin a call that spans more than one store round trip
CanCall(c) == calls[c] = Idle /\ InFlight < MaxInFlight

----------------------------------------------------------------------------
(* services: helpers *)

getActiveSlot(a, queue) ==
  IF ~IsNull(a.manualPlayer)
  THEN [slot |-> a.manualPlayer, isManual |-> TRUE]
  ELSE [slot |-> IF a.currentPlayerIndex + 1 \in 1..Len(queue)
                 THEN Some(queue[a.currentPlayerIndex + 1])
                 ELSE Null,
        isManual |-> FALSE]

ActiveSlot(a) == getActiveSlot(a, buildPlayerQueue(a.categories)).slot

\* the key of the slot a caller sees on the block (null when there is none)
ActiveKey(a) == IF IsNull(ActiveSlot(a)) THEN Null ELSE Some(Val(ActiveSlot(a)).key)

participantCanCoverBid(participant, amount) ==
  participant.budgetRemaining >= amount

----------------------------------------------------------------------------
(* joinAuction *)

joinAuctionError(c, password) ==
  IF auction.password # password THEN "Incorrect password."
  ELSE IF ~Present(c) /\ auction.participantCount >= auction.maxParticipants
  THEN "Auction is full."
  ELSE "ok"

\* safeName || existing.name
rejoinName(existing, safeName) ==
  IF safeName # << >> THEN safeName ELSE existing.name

\* a rejoin that writes a fresh record over the existing one
JoinAuction_RejoinResets(c, password, displayName) ==
  /\ joinAuctionError(c, password) = "ok"
  /\ IF ~Present(c)
     THEN /\ auction' = Merge(auction,
                 [participantCount |-> auction.participantCount + 1])
          /\ participants' = [participants EXCEPT ![c] =
                 Some(NewParticipant(safeNameOf(displayName), "player",
                                     auction.budgetPerPlayer,
                                     auction.playersPerTeam))]
     ELSE /\ participants' = [participants EXCEPT ![c] =
                 Some(NewParticipant(rejoinName(Part(c), safeNameOf(displayName)),
                                     Part(c).role,
                                     auction.budgetPerPlayer,
                                     auction.playersPerTeam))]
          /\ UNCHANGED auction
  /\ UNCHANGED <<calls, now, auctions, creating>>

JoinAuction(c, password, displayName) ==
  /\ joinAuctionError(c, password) = "ok"
  /\ IF ~Present(c)
     THEN /\ auction' = Merge(auction,
                 [participantCount |-> auction.participantCount + 1])
          /\ participants' = [participants EXCEPT ![c] =
                 Some(NewParticipant(safeNameOf(displayName), "player",
                                     auction.budgetPerPlayer,
                                     auction.playersPerTeam))]
     ELSE /\ participants' = [participants EXCEPT ![c] =
                 Some(Merge(Part(c),
                   [name |-> rejoinName(Part(c), safeNameOf(displayName)),
                    rankings |-> Part(c).rankings]))]
          /\ UNCHANGED auction
  /\ UNCHANGED <<calls, now, auctions, creating>>

----------------------------------------------------------------------------
(* startAuction *)

\* a startAuction that forgets the status check
startAuctionError_NoStatusCheck ==
  IF Len(buildPlayerQueue(auction.categories)) = 0
  THEN "No players to start the auction."
  ELSE "ok"

startAuctionError ==
  IF auction.status # "lobby" THEN "Auction already started."
  ELSE IF Len(buildPlayerQueue(auction.categories)) = 0
       THEN "No players to start the auction."
       ELSE "ok"

\* a start that opens the window of a bid instead of the opening window
StartAuction_BidWindow ==
  /\ startAuctionError = "ok"
  /\ auction' = Merge(auction,
       [status |-> "live",
        currentPlayerIndex |-> 0,
        countdownEndsAt |-> Some(now + ACTIVE_BID_TIMER_MS),
        countdownDuration |-> Some(ACTIVE_BID_TIMER_MS),
        activeBid |-> Null,
        skipVotes |-> {},
        isPaused |-> FALSE,
        pausedRemainingMs |-> Null,
        manualPlayer |-> Null,
        manualSourceId |-> Null,
        finalizationOpen |-> FALSE])
  /\ UNCHANGED <<participants, calls, now, auctions, creating>>

StartAuction ==
  /\ startAuctionError = "ok"
  /\ auction' = Merge(auction,
       [status |-> "live",
        currentPlayerIndex |-> 0,
        countdownEndsAt |-> Some(now + START_TIMER_MS),
        countdownDuration |-> Some(START_TIMER_MS),
        activeBid |-> Null,
        skipVotes |-> {},
        isPaused |-> FALSE,
        pausedRemainingMs |-> Null,
        manualPlayer |-> Null,
        manualSourceId |-> Null,
        finalizationOpen |-> FALSE])
  /\ UNCHANGED <<participants, calls, now, auctions, creating>>

----------------------------------------------------------------------------
(* placeBid: the transaction, then the lock-resolution sweep *)

\* a minimum that lets a bid equal to the active one through
minimumBid_NoIncrement(a, slot) ==
  Max(slot.basePrice,
      IF ~IsNull(a.activeBid) THEN Val(a.activeBid).amount ELSE slot.basePrice)

\* a minimum computed from the base price alone
minimumBid_IgnoresActiveBid(a, slot) == slot.basePrice

minimumBid(a, slot) ==
  Max(slot.basePrice,
      IF ~IsNull(a.activeBid) THEN Val(a.activeBid).amount + 1 ELSE slot.basePrice)

\* a placeBid that forgets the budget check
placeBidError_IgnoresBudget(c, amount) ==
  IF auction.status # "live" THEN "Auction is not live."
  ELSE IF auction.isPaused THEN "Auction is paused."
  ELSE IF IsNull(ActiveSlot(auction)) THEN "No active player."
  ELSE IF ~Present(c) THEN "Participant missing."
  ELSE IF amount < minimumBid(auction, Val(ActiveSlot(auction)))
       THEN "Bid must be at least minimumBid."
  ELSE "ok"

\* a placeBid that forgets the pause check
placeBidError_IgnoresPause(c, amount) ==
  IF auction.status # "live" THEN "Auction is not live."
  ELSE IF IsNull(ActiveSlot(auction)) THEN "No active player."
  ELSE IF ~Present(c) THEN "Participant missing."
  ELSE IF amount < minimumBid(auction, Val(ActiveSlot(auction)))
       THEN "Bid must be at least minimumBid."
  ELSE IF amount > Part(c).budgetRemaining
       THEN "Bid exceeds your remaining budget."
  ELSE "ok"

placeBidError(c, amount) ==
  IF auction.status # "live" THEN "Auction is not live."
  ELSE IF auction.isPaused THEN "Auction is paused."
  ELSE IF IsNull(ActiveSlot(auction)) THEN "No active player."
  ELSE IF ~Present(c) THEN "Participant missing."
  ELSE IF amount < minimumBid(auction, Val(ActiveSlot(auction)))
       THEN "Bid must be at least minimumBid."
  ELSE IF amount > Part(c).budgetRemaining
       THEN "Bid exceeds your remaining budget."
  ELSE "ok"

PlaceBid(c, amount) ==
  /\ CanCall(c)
  /\ placeBidError(c, amount) = "ok"
  /\ auction' = Merge(auction,
       [activeBid |-> Some([amount |-> amount, bidderId |-> c]),
        countdownEndsAt |-> Some(now + ACTIVE_BID_TIMER_MS),
        countdownDuration |-> Some(ACTIVE_BID_TIMER_MS),
        skipVotes |-> {}])
  /\ calls' = [calls EXCEPT ![c] = [stage |-> "sweep"]]
  /\ UNCHANGED <<participants, now, auctions, creating>>


----------------------------------------------------------------------------
(* skipPlayer: the vote transaction; its result decides the follow-up call *)

skipVotesAfter(a, c) == a.skipVotes \cup {c}

skipResult(a, c) ==
  IF a.status # "live" \/ a.isPaused
  THEN [resolve |-> FALSE, forceUnsold |-> FALSE]
  ELSE IF ~IsNull(a.activeBid)
       THEN [resolve |->
               Cardinality({id \in skipVotesAfter(a, c) :
                              id # Val(a.activeBid).bidderId})
                 >= Max(a.participantCount - 1, 1),
             forceUnsold |-> FALSE]
       ELSE [resolve |-> Cardinality(skipVotesAfter(a, c)) >= a.participantCount,
             forceUnsold |-> TRUE]

\* a pass that is recorded whatever the phase of the auction
SkipPlayer_IgnoresPhase(c) ==
  /\ CanCall(c)
  /\ Present(c)
  /\ auction' = Merge(auction, [skipVotes |-> skipVotesAfter(auction, c)])
  /\ calls' = [calls EXCEPT ![c] = [stage |-> "sweep"]]
  /\ UNCHANGED <<participants, now, auctions, creating>>

SkipPlayer(c) ==
  /\ CanCall(c)
  /\ Present(c)
  /\ auction' = IF auction.status # "live" \/ auction.isPaused
                THEN auction
                ELSE Merge(auction, [skipVotes |-> skipVotesAfter(auction, c)])
  /\ calls' = [calls EXCEPT ![c] =
       IF skipResult(auction, c).resolve
       THEN [stage |-> "finalize",
             forceUnsold |-> skipResult(auction, c).forceUnsold,
             origin |-> "skip",
             slot |-> ActiveKey(auction)]
       ELSE [stage |-> "sweep"]]
  /\ UNCHANGED <<participants, now, auctions, creating>>

----------------------------------------------------------------------------
(* pauseAuction / resumeAuction *)

PauseAuction ==
  /\ auction.status = "live" /\ ~auction.isPaused
  /\ auction' = Merge(auction,
       [isPaused |-> TRUE,
        pausedRemainingMs |->
          IF ~IsNull(auction.countdownEndsAt)
          THEN Some(Max(Val(auction.countdownEndsAt) - now, 0))
          ELSE IF ~IsNull(auction.countdownDuration)
               THEN auction.countdownDuration
               ELSE Some(START_TIMER_MS),
        countdownEndsAt |-> Null])
  /\ UNCHANGED <<participants, calls, now, auctions, creating>>

\* a resume that restarts the full opening window
resumeMs_FullWindow(a) == START_TIMER_MS

resumeMs(a) ==
  IF ~IsNull(a.pausedRemainingMs) THEN Val(a.pausedRemainingMs)
  ELSE IF ~IsNull(a.countdownDuration) THEN Val(a.countdownDuration)
       ELSE START_TIMER_MS

ResumeAuction ==
  /\ auction.status = "live" /\ auction.isPaused
  /\ auction' = Merge(auction,
       [isPaused |-> FALSE,
        pausedRemainingMs |-> Null,
        countdownEndsAt |-> Some(now + resumeMs(auction)),
        countdownDuration |-> Some(resumeMs(auction))])
  /\ UNCHANGED <<participants, calls, now, auctions, creating>>

----------------------------------------------------------------------------
(* finalizeCurrentPlayer *)

\* a queue advance that carries the skip votes over to the next slot
resolveNextPlayer_KeepsVotes(a, queue, t) ==
  LET nextIndex == a.currentPlayerIndex + 1
      hasNext == nextIndex < Len(queue)
  IN IF ~hasNext
     THEN [status |-> "ended",
           currentPlayerIndex |-> nextIndex,
           countdownEndsAt |-> Null,
           countdownDuration |-> Null,
           activeBid |-> Null,
           skipVotes |-> {},
           isPaused |-> FALSE,
           pausedRemainingMs |-> Null,
           finalizationOpen |-> FALSE]
     ELSE [currentPlayerIndex |-> nextIndex,
           countdownEndsAt |-> Some(t + START_TIMER_MS),
           countdownDuration |-> Some(START_TIMER_MS),
           activeBid |-> Null,
           isPaused |-> FALSE,
           pausedRemainingMs |-> Null,
           finalizationOpen |-> a.finalizationOpen]

\* hasNext off by one
resolveNextPlayer_OffByOne(a, queue, t) ==
  LET nextIndex == a.currentPlayerIndex + 1
      hasNext == nextIndex <= Len(queue)
  IN IF ~hasNext
     THEN [status |-> "ended",
           currentPlayerIndex |-> nextIndex,
           countdownEndsAt |-> Null,
           countdownDuration |-> Null,
           activeBid |-> Null,
           skipVotes |-> {},
           isPaused |-> FALSE,
           pausedRemainingMs |-> Null,
           finalizationOpen |-> FALSE]
     ELSE [currentPlayerIndex |-> nextIndex,
           countdownEndsAt |-> Some(t + START_TIMER_MS),
           countdownDuration |-> Some(START_TIMER_MS),
           activeBid |-> Null,
           skipVotes |-> {},
           isPaused |-> FALSE,
           pausedRemainingMs |-> Null,
           finalizationOpen |-> a.finalizationOpen]

resolveNextPlayer(a, queue, t) ==
  LET nextIndex == a.currentPlayerIndex + 1
      hasNext == nextIndex < Len(queue)
  IN IF ~hasNext
     THEN [status |-> "ended",
           currentPlayerIndex |-> nextIndex,
           countdownEndsAt |-> Null,
           countdownDuration |-> Null,
           activeBid |-> Null,
           skipVotes |-> {},
           isPaused |-> FALSE,
           pausedRemainingMs |-> Null,
           finalizationOpen |-> FALSE]
     ELSE [currentPlayerIndex |-> nextIndex,
           countdownEndsAt |-> Some(t + START_TIMER_MS),
           countdownDuration |-> Some(START_TIMER_MS),
           activeBid |-> Null,
           skipVotes |-> {},
           isPaused |-> FALSE,
           pausedRemainingMs |-> Null,
           finalizationOpen |-> a.finalizationOpen]

\* a manual finalize that advances the queue pointer like a queue finalize
manualUpdates_AdvancesIndex(a, queue) ==
  LET queueComplete == a.currentPlayerIndex >= Len(queue) - 1
  IN [manualPlayer |-> Null,
      manualSourceId |-> Null,
      currentPlayerIndex |-> a.currentPlayerIndex + 1,
      countdownEndsAt |-> Null,
      countdownDuration |-> Null,
      activeBid |-> Null,
      skipVotes |-> {},
      isPaused |-> FALSE,
      pausedRemainingMs |-> Null,
      status |-> IF queueComplete THEN "ended" ELSE a.status,
      finalizationOpen |-> IF queueComplete THEN FALSE ELSE a.finalizationOpen]

\* the updates of a resolved manual (relisted) slot
manualUpdates(a, queue) ==
  LET queueComplete == a.currentPlayerIndex >= Len(queue) - 1
  IN [manualPlayer |-> Null,
      manualSourceId |-> Null,
      countdownEndsAt |-> Null,
      countdownDuration |-> Null,
      activeBid |-> Null,
      skipVotes |-> {},
      isPaused |-> FALSE,
      pausedRemainingMs |-> Null,
      status |-> IF queueComplete THEN "ended" ELSE a.status,
      finalizationOpen |-> IF queueComplete THEN FALSE ELSE a.finalizationOpen]

shouldSell(a, forceUnsold) == ~IsNull(a.activeBid) /\ ~forceUnsold

completedEntryOf(a, slot, forceUnsold) ==
  IF shouldSell(a, forceUnsold)
  THEN [id |-> slot.key,
        playerName |-> slot.name,
        categoryLabel |-> slot.categoryLabel,
        basePrice |-> slot.basePrice,
        result |-> "sold",
        winnerId |-> Some(Val(a.activeBid).bidderId),
        finalBid |-> Some(Val(a.activeBid).amount)]
  ELSE [id |-> slot.key,
        playerName |-> slot.name,
        categoryLabel |-> slot.categoryLabel,
        basePrice |-> slot.basePrice,
        result |-> "unsold",
        winnerId |-> Null,
        finalBid |-> Null]

\* a ledger whose replaced entry keeps the key of the relisted slot
historyAfter_KeepsManualKey(a, isManual, completedEntry) ==
  IF isManual /\ ~IsNull(a.manualSourceId)
  THEN [i \in 1..Len(a.completedPlayers) |->
          IF a.completedPlayers[i].id = Val(a.manualSourceId)
          THEN completedEntry
          ELSE a.completedPlayers[i]]
  ELSE Append(a.completedPlayers, completedEntry)

\* a ledger that always appends, relisted slot or not
historyAfter_AlwaysAppend(a, isManual, completedEntry) ==
  Append(a.completedPlayers, completedEntry)

historyAfter(a, isManual, completedEntry) ==
  IF isManual /\ ~IsNull(a.manualSourceId)
  THEN [i \in 1..Len(a.completedPlayers) |->
          IF a.completedPlayers[i].id = Val(a.manualSourceId)
          THEN [completedEntry EXCEPT !.id = a.completedPlayers[i].id]
          ELSE a.completedPlayers[i]]
  ELSE Append(a.completedPlayers, completedEntry)

\* a sale that counts the open roster slots below zero
creditWinner_NoFloor(participant, slot, bid) ==
  Merge(participant,
    [roster |-> Append(participant.roster,
                       [playerName |-> slot.name,
                        categoryLabel |-> slot.categoryLabel,
                        price |-> bid.amount]),
     budgetRemaining |-> participant.budgetRemaining - bid.amount,
     playersNeeded |-> participant.playersNeeded - 1])

\* a sale that charges the base price instead of the bid
creditWinner_ChargesBasePrice(participant, slot, bid) ==
  Merge(participant,
    [roster |-> Append(participant.roster,
                       [playerName |-> slot.name,
                        categoryLabel |-> slot.categoryLabel,
                        price |-> bid.amount]),
     budgetRemaining |-> participant.budgetRemaining - slot.basePrice,
     playersNeeded |-> Max(participant.playersNeeded - 1, 0)])

\* the winner's record after the sale
creditWinner(participant, slot, bid) ==
  Merge(participant,
    [roster |-> Append(participant.roster,
                       [playerName |-> slot.name,
                        categoryLabel |-> slot.categoryLabel,
                        price |-> bid.amount]),
     budgetRemaining |-> participant.budgetRemaining - bid.amount,
     playersNeeded |-> Max(participant.playersNeeded - 1, 0)])

finalizeError(a, ps, forceUnsold) ==
  IF a.status = "live" /\ ~IsNull(ActiveSlot(a)) /\ shouldSell(a, forceUnsold)
     /\ IsNull(ps[Val(a.activeBid).bidderId])
  THEN "Winning bidder left the lobby."
  ELSE "ok"

\* the auction document after the transaction
finalizeAuction(a, forceUnsold, t) ==
  LET queue == buildPlayerQueue(a.categories)
      active == getActiveSlot(a, queue)
  IN IF a.status # "live" THEN a
     ELSE IF IsNull(active.slot)
     THEN Merge(a, [status |-> "ended",
                    countdownEndsAt |-> Null,
                    countdownDuration |-> Null,
                    activeBid |-> Null,
                    skipVotes |-> {},
                    finalizationOpen |-> FALSE])
     ELSE Merge(Merge(a,
            [completedPlayers |->
               historyAfter(a, active.isManual,
                            completedEntryOf(a, Val(active.slot), forceUnsold))]),
            IF active.isManual THEN manualUpdates(a, queue)
            ELSE resolveNextPlayer(a, queue, t))

\* a sale that records the ledger entry of a relisted slot but forgets the
\* winner's record
finalizeParticipants_SkipsManual(a, ps, forceUnsold) ==
  IF a.status = "live" /\ ~IsNull(ActiveSlot(a)) /\ shouldSell(a, forceUnsold)
     /\ IsNull(a.manualPlayer)
  THEN [ps EXCEPT ![Val(a.activeBid).bidderId] =
          Some(creditWinner(Val(ps[Val(a.activeBid).bidderId]),
                            Val(ActiveSlot(a)), Val(a.activeBid)))]
  ELSE ps

\* the participant records after the transaction
finalizeParticipants(a, ps, forceUnsold) ==
  IF a.status = "live" /\ ~IsNull(ActiveSlot(a)) /\ shouldSell(a, forceUnsold)
  THEN [ps EXCEPT ![Val(a.activeBid).bidderId] =
          Some(creditWinner(Val(ps[Val(a.activeBid).bidderId]),
                            Val(ActiveSlot(a)), Val(a.activeBid)))]
  ELSE ps

\* the transaction of a finalizeCurrentPlayer call that was issued earlier
FinalizeCurrentPlayer(c) ==
  /\ calls[c].stage = "finalize"
  /\ IF finalizeError(auction, participants, calls[c].forceUnsold) = "ok"
     THEN /\ auction' = finalizeAuction(auction, calls[c].forceUnsold, now)
          /\ participants' =
               finalizeParticipants(auction, participants, calls[c].forceUnsold)
     ELSE UNCHANGED <<auction, participants>>
  /\ calls' = [calls EXCEPT ![c] = Idle]
  /\ UNCHANGED <<now, auctions, creating>>


----------------------------------------------------------------------------
(* maybeResolveLockedAuction: two reads outside any transaction, then a    *)
(* finalizeCurrentPlayer call                                              *)

\* getDoc(auctionRef) and the checks on that snapshot
SweepReadAuction(c) ==
  /\ calls[c].stage = "sweep"
  /\ calls' = [calls EXCEPT ![c] =
       IF auction.status # "live" \/ auction.isPaused \/ IsNull(auction.activeBid)
          \/ IsNull(ActiveSlot(auction))
       THEN Idle
       ELSE [stage |-> "contenders",
             bidderId |-> Val(auction.activeBid).bidderId,
             minimumBid |-> Max(Val(ActiveSlot(auction)).basePrice,
                                Val(auction.activeBid).amount + 1),
             slot |-> ActiveKey(auction)]]
  /\ UNCHANGED <<auction, participants, now, auctions, creating>>

contenders(ps, bidderId, minBid) ==
  \E id \in Clients :
    /\ ~IsNull(ps[id])
    /\ id # bidderId
    /\ participantCanCoverBid(Val(ps[id]), minBid)

\* getDocs(participants) and the decision
SweepReadParticipants(c) ==
  /\ calls[c].stage = "contenders"
  /\ calls' = [calls EXCEPT ![c] =
       IF ~contenders(participants, calls[c].bidderId, calls[c].minimumBid)
       THEN [stage |-> "finalize",
             forceUnsold |-> FALSE,
             origin |-> "sweep",
             slot |-> calls[c].slot]
       ELSE Idle]
  /\ UNCHANGED <<auction, participants, now, auctions, creating>>

----------------------------------------------------------------------------
(* App.tsx: the admin's "Next player" button *)

\* handleManualResolve: forceUnsold comes from the page's snapshot
HandleManualResolve(d) ==
  /\ d \in Drivers
  /\ CanCall(d)
  /\ calls' = [calls EXCEPT ![d] =
       [stage |-> "finalize",
        forceUnsold |-> IsNull(auction.activeBid),
        origin |-> "manual",
        slot |-> ActiveKey(auction)]]
  /\ UNCHANGED <<auction, participants, now, auctions, creating>>

----------------------------------------------------------------------------
(* relistUnsoldPlayer *)

HasUnsoldEntry(a, id) ==
  \E i \in 1..Len(a.completedPlayers) :
    a.completedPlayers[i].id = id /\ a.completedPlayers[i].result = "unsold"

\* Array.prototype.find: the first entry with that id
findEntry(a, id) ==
  a.completedPlayers[
    CHOOSE i \in 1..Len(a.completedPlayers) :
      /\ a.completedPlayers[i].id = id
      /\ \A j \in 1..(i - 1) : a.completedPlayers[j].id # id]

HasEntry(a, id) == \E i \in 1..Len(a.completedPlayers) : a.completedPlayers[i].id = id

\* a relist that accepts any ledger entry, sold or not
relistError_AnyEntry(a, id) ==
  IF ~HasEntry(a, id) THEN "Player not available for re-auction."
  ELSE "ok"

relistError(a, id) ==
  IF ~HasEntry(a, id) THEN "Player not available for re-auction."
  ELSE IF findEntry(a, id).result # "unsold"
       THEN "Player not available for re-auction."
       ELSE "ok"

RelistUnsoldPlayer(id) ==
  /\ relistError(auction, id) = "ok"
  /\ LET entry == findEntry(auction, id)
     IN auction' = Merge(auction,
          [status |-> "live",
           manualPlayer |-> Some([key |-> <<"manual", entry.id, now>>,
                                  name |-> entry.playerName,
                                  categoryLabel |-> entry.categoryLabel,
                                  basePrice |-> entry.basePrice,
                                  sourceId |-> entry.id]),
           manualSourceId |-> Some(entry.id),
           countdownEndsAt |-> Some(now + START_TIMER_MS),
           countdownDuration |-> Some(START_TIMER_MS),
           activeBid |-> Null,
           skipVotes |-> {},
           isPaused |-> FALSE,
           pausedRemainingMs |-> Null])
  /\ UNCHANGED <<participants, calls, now, auctions, creating>>

----------------------------------------------------------------------------
(* openFinalizationPhase *)

\* a gate that opens whatever the status
openFinalizationError_AnyStatus(a) == "ok"

openFinalizationError(a) ==
  IF a.status # "ended" THEN "Finish the auction before opening final teams."
  ELSE "ok"

OpenFinalizationPhase ==
  /\ openFinalizationError(auction) = "ok"
  /\ auction' = IF auction.finalizationOpen THEN auction
                ELSE Merge(auction, [finalizationOpen |-> TRUE])
  /\ UNCHANGED <<participants, calls, now, auctions, creating>>


----------------------------------------------------------------------------
(* submitTeam, submitRanking *)

\* updateDoc fails on a record that does not exist
SubmitTeam(c) ==
  /\ Present(c)
  /\ participants' = [participants EXCEPT ![c] =
       Some(Merge(Part(c), [hasSubmittedTeam |-> TRUE,
                            finalRoster |-> Some(Part(c).roster)]))]
  /\ UNCHANGED <<auction, calls, now, auctions, creating>>

\* rankings[participantId] = ... for each index in turn: a later index of the
\* same id replaces the earlier one
\* points without the floor of 1
RECURSIVE rankingsOf_NoFloor(_, _, _)
rankingsOf_NoFloor(rankingOrder, maxPoints, upTo) ==
  IF upTo = 0 THEN {}
  ELSE {r \in rankingsOf_NoFloor(rankingOrder, maxPoints, upTo - 1) :
          r.id # rankingOrder[upTo]}
       \cup {[id |-> rankingOrder[upTo],
              points |-> maxPoints - (upTo - 1)]}

RECURSIVE rankingsOf(_, _, _)
rankingsOf(rankingOrder, maxPoints, upTo) ==
  IF upTo = 0 THEN {}
  ELSE {r \in rankingsOf(rankingOrder, maxPoints, upTo - 1) :
          r.id # rankingOrder[upTo]}
       \cup {[id |-> rankingOrder[upTo],
              points |-> Max(maxPoints - (upTo - 1), 1)]}

SubmitRanking(c, rankingOrder) ==
  /\ Present(c)
  /\ participants' = [participants EXCEPT ![c] =
       Some(Merge(Part(c),
         [rankings |-> rankingsOf(rankingOrder,
                                  Max(auction.participantCount - 1, 1),
                                  Len(rankingOrder)),
          rankingSubmitted |-> TRUE]))]
  /\ UNCHANGED <<auction, calls, now, auctions, creating>>

\* the orders the ranking panel can submit: the other participants, each once
RankingOrders(c) ==
  LET others == {id \in Clients : Present(id) /\ id # c}
  IN {order \in [1..Cardinality(others) -> others] :
        \A i, j \in 1..Cardinality(others) : i # j => order[i] # order[j]}

----------------------------------------------------------------------------
(* useAdminAutomation: team submission -> ranking *)

everyoneSubmitted(ps) ==
  /\ \E id \in Clients : ~IsNull(ps[id])
  /\ \A id \in Clients : ~IsNull(ps[id]) => Val(ps[id]).hasSubmittedTeam

\* the effect of the admin page: it sees everyone submitted and issues the call
ObserveEveryoneSubmitted(d) ==
  /\ d \in Drivers
  /\ CanCall(d)
  /\ auction.status = "ended" /\ auction.finalizationOpen
  /\ everyoneSubmitted(participants)
  /\ calls' = [calls EXCEPT ![d] = [stage |-> "markRanking"]]
  /\ UNCHANGED <<auction, participants, now, auctions, creating>>

\* markAuctionAsRanking: one updateDoc, no read
MarkAuctionAsRanking(d) ==
  /\ calls[d].stage = "markRanking"
  /\ auction' = Merge(auction, [status |-> "ranking", finalizationOpen |-> FALSE])
  /\ calls' = [calls EXCEPT ![d] = Idle]
  /\ UNCHANGED <<participants, now, auctions, creating>>

----------------------------------------------------------------------------
(* useAdminAutomation: ranking -> results; finalizeResults *)

everyoneRanked(ps) ==
  /\ \E id \in Clients : ~IsNull(ps[id])
  /\ \A id \in Clients : ~IsNull(ps[id]) => Val(ps[id]).rankingSubmitted

ObserveEveryoneRanked(d) ==
  /\ d \in Drivers
  /\ CanCall(d)
  /\ auction.status = "ranking"
  /\ everyoneRanked(participants)
  /\ calls' = [calls EXCEPT ![d] = [stage |-> "results"]]
  /\ UNCHANGED <<auction, participants, now, auctions, creating>>

\* getDoc(auctionRef): nothing is done unless the auction is in ranking
FinalizeResultsReadAuction(d) ==
  /\ calls[d].stage = "results"
  /\ calls' = [calls EXCEPT ![d] =
       IF auction.status # "ranking" THEN Idle ELSE [stage |-> "tally"]]
  /\ UNCHANGED <<auction, participants, now, auctions, creating>>

\* the participant records in the order getDocs returns them (by document id)
ReadOrder == <<"p1", "p2", "p3">>

RECURSIVE presentIds(_, _)
presentIds(ps, upTo) ==
  IF upTo = 0 THEN << >>
  ELSE IF IsNull(ps[ReadOrder[upTo]]) THEN presentIds(ps, upTo - 1)
       ELSE Append(presentIds(ps, upTo - 1), ReadOrder[upTo])

RECURSIVE SumPoints(_)
SumPoints(pointSet) ==
  IF pointSet = {} THEN 0
  ELSE LET r == CHOOSE x \in pointSet : TRUE
       IN r.points + SumPoints(pointSet \ {r})

\* scoreBoard[targetId]: the sum over every participant's rankings
scoreBoard(ps, targetId) ==
  SumPoints(UNION {{[from |-> id, points |-> r.points] :
                      r \in {x \in Val(ps[id]).rankings : x.id = targetId}} :
                   id \in {i \in Clients : ~IsNull(ps[i])}})

resultRow(ps, id) ==
  [participantId |-> id,
   name |-> Val(ps[id]).name,
   points |-> scoreBoard(ps, id),
   rosterCount |-> IF ~IsNull(Val(ps[id]).finalRoster)
                   THEN Len(Val(Val(ps[id]).finalRoster))
                   ELSE Len(Val(ps[id]).roster),
   budgetRemaining |-> Val(ps[id]).budgetRemaining]

\* sort((a, b) => b.points - a.points), stable
RECURSIVE InsertByPoints(_, _)
InsertByPoints(sorted, row) ==
  IF sorted = << >> THEN <<row>>
  ELSE IF row.points - sorted[Len(sorted)].points <= 0
       THEN Append(sorted, row)
       ELSE Append(InsertByPoints(SubSeq(sorted, 1, Len(sorted) - 1), row),
                   sorted[Len(sorted)])

RECURSIVE SortByPoints(_)
SortByPoints(rows) ==
  IF rows = << >> THEN << >>
  ELSE InsertByPoints(SortByPoints(SubSeq(rows, 1, Len(rows) - 1)), rows[Len(rows)])

computeResults(ps) ==
  LET ids == presentIds(ps, Len(ReadOrder))
      rows == SortByPoints([i \in 1..Len(ids) |-> resultRow(ps, ids[i])])
  IN [i \in 1..Len(rows) |->
        [participantId |-> rows[i].participantId,
         name |-> rows[i].name,
         points |-> rows[i].points,
         rosterCount |-> rows[i].rosterCount,
         budgetRemaining |-> rows[i].budgetRemaining,
         rank |-> i]]

\* getDocs(participants) and the tally
FinalizeResultsReadParticipants(d) ==
  /\ calls[d].stage = "tally"
  /\ calls' = [calls EXCEPT ![d] =
       [stage |-> "writeResults", results |-> computeResults(participants)]]
  /\ UNCHANGED <<auction, participants, now, auctions, creating>>

\* updateDoc(auctionRef, {status: "results", results})
FinalizeResultsWrite(d) ==
  /\ calls[d].stage = "writeResults"
  /\ auction' = Merge(auction, [status |-> "results", results |-> calls[d].results])
  /\ calls' = [calls EXCEPT ![d] = Idle]
  /\ UNCHANGED <<participants, now, auctions, creating>>


----------------------------------------------------------------------------
(* The specification of the live auction *)

\* the inputs of createAuction: two participants who draft a queue of two
\* players (configured out of label order), three participants who draft
\* one player, the same with a category of blank names beside it, and an
\* input with no player at all, which createAuction refuses
CreateInputs ==
  { [auctionName |-> <<"C", "u", "p">>,
     password |-> "secret", adminName |-> DisplayNameOf["p1"],
     maxParticipants |-> 2, playersPerTeam |-> 2, budgetPerPlayer |-> 3,
     categories |->
       << [id |-> "c1", label |-> "B", basePrice |-> 2, players |-> <<"x">>],
          [id |-> "c2", label |-> "A", basePrice |-> 1, players |-> <<"y">>] >>],
    [auctionName |-> <<"C", "u", "p">>,
     password |-> "secret", adminName |-> DisplayNameOf["p1"],
     maxParticipants |-> 3, playersPerTeam |-> 1, budgetPerPlayer |-> 2,
     categories |->
       << [id |-> "c2", label |-> "A", basePrice |-> 1, players |-> <<"y">>] >>],
    [auctionName |-> <<"C", "u", "p">>,
     password |-> "secret", adminName |-> DisplayNameOf["p1"],
     maxParticipants |-> 3, playersPerTeam |-> 1, budgetPerPlayer |-> 2,
     categories |->
       << [id |-> "c1", label |-> "B", basePrice |-> 2, players |-> <<" ">>],
          [id |-> "c2", label |-> "A", basePrice |-> 1, players |-> <<"y">>] >>],
    [auctionName |-> <<"C", "u", "p">>,
     password |-> "secret", adminName |-> DisplayNameOf["p1"],
     maxParticipants |-> 2, playersPerTeam |-> 1, budgetPerPlayer |-> 1,
     categories |->
       << [id |-> "c1", label |-> "A", basePrice |-> 1, players |-> <<" ", "">>] >>] }

\* the ids a caller can pass to relistUnsoldPlayer
EntryIds ==
  {<<cat, idx>> : cat \in {"c1", "c2"}, idx \in {0}}

\* input.adminName.trim().slice(0, 10) || "Admin"
adminNameOf(input) ==
  IF safeNameOf(input.adminName) # << >> THEN safeNameOf(input.adminName)
  ELSE <<"A", "d", "m", "i", "n">>

\* the state after createAuction(input) has written the auction and its admin
Created(input) ==
  /\ createAuctionError(<< >>, input) = "ok"
  /\ auction = createAuction(input)
  /\ participants = [c \in Clients |->
       IF c = AdminId
       THEN Some(NewParticipant(adminNameOf(input), "admin",
                                input.budgetPerPlayer, input.playersPerTeam))
       ELSE Null]
  /\ calls = [c \in Callers |-> Idle]
  /\ now = 0
  /\ auctions = <<nameEntry(input.auctionName)>>
  /\ creating = [k \in Creators |-> Idle]

Init == \E input \in CreateInputs : Created(input)

Next ==
  \/ \E c \in Clients, password \in Passwords :
       JoinAuction(c, password, DisplayNameOf[c])
  \/ StartAuction
  \/ \E c \in Clients, amount \in 1..MaxBid : PlaceBid(c, amount)
  \/ \E c \in Clients : SkipPlayer(c)
  \/ \E c \in Clients : SweepReadAuction(c)
  \/ \E c \in Clients : SweepReadParticipants(c)
  \/ \E d \in Drivers : HandleManualResolve(d)
  \/ \E c \in Callers : FinalizeCurrentPlayer(c)
  \/ PauseAuction
  \/ ResumeAuction
  \/ \E id \in EntryIds : RelistUnsoldPlayer(id)
  \/ OpenFinalizationPhase

Spec == Init /\ [][Next]_vars


----------------------------------------------------------------------------
(* The specification of the whole lifecycle, on a queue of one player *)

LifecycleInputs ==
  { [auctionName |-> <<"C", "u", "p">>,
     password |-> "secret", adminName |-> DisplayNameOf["p1"],
     maxParticipants |-> 1, playersPerTeam |-> 1, budgetPerPlayer |-> 1,
     categories |->
       << [id |-> "c2", label |-> "A", basePrice |-> 1, players |-> <<"y">>] >>] }

InitLifecycle == \E input \in LifecycleInputs : Created(input)

NextLifecycle ==
  \/ Next
  \/ \E c \in Clients : SubmitTeam(c)
  \/ \E c \in Clients : \E rankingOrder \in RankingOrders(c) :
       SubmitRanking(c, rankingOrder)
  \/ \E d \in Drivers : ObserveEveryoneSubmitted(d)
  \/ \E d \in Drivers : MarkAuctionAsRanking(d)
  \/ \E d \in Drivers : ObserveEveryoneRanked(d)
  \/ \E d \in Drivers : FinalizeResultsReadAuction(d)
  \/ \E d \in Drivers : FinalizeResultsReadParticipants(d)
  \/ \E d \in Drivers : FinalizeResultsWrite(d)

SpecLifecycle == InitLifecycle /\ [][NextLifecycle]_vars


----------------------------------------------------------------------------
(* The specification of joining and rejoining under any display name *)

\* the display names a caller types: empty, padded, and longer than the limit
DisplayNames ==
  { << >>,
    <<" ", "B", " ">>,
    <<"a", "b", "c", "d", "e", "f", "g", "h", "i", "j", "k">> }

JoinInputs ==
  { [auctionName |-> <<"C", "u", "p">>,
     password |-> "secret", adminName |-> <<" ">>,
     maxParticipants |-> 2, playersPerTeam |-> 1, budgetPerPlayer |-> 2,
     categories |->
       << [id |-> "c2", label |-> "A", basePrice |-> 1, players |-> <<"y">>] >>] }

InitJoin == \E input \in JoinInputs : Created(input)

NextJoin ==
  \/ \E c \in Clients, password \in Passwords, displayName \in DisplayNames :
       JoinAuction(c, password, displayName)
  \/ StartAuction
  \/ \E c \in Clients, amount \in 1..MaxBid : PlaceBid(c, amount)
  \/ \E c \in Clients : SkipPlayer(c)
  \/ \E c \in Clients : SweepReadAuction(c)
  \/ \E c \in Clients : SweepReadParticipants(c)
  \/ \E c \in Callers : FinalizeCurrentPlayer(c)
  \/ OpenFinalizationPhase
  \/ \E c \in Clients : SubmitTeam(c)
  \/ \E c \in Clients : \E rankingOrder \in RankingOrders(c) :
       SubmitRanking(c, rankingOrder)

SpecJoin == InitJoin /\ [][NextJoin]_vars


----------------------------------------------------------------------------
(* The specification of submitRanking on any ranking order *)

\* the ranking orders a caller can pass: participant ids, each at most once,
\* the caller's own id and ids that never joined included
AnyRankingOrders ==
  UNION {{order \in [1..n -> Clients] :
            \A i, j \in 1..n : i # j => order[i] # order[j]} :
         n \in 0..MaxOrderLen}

RankingInputs ==
  { [auctionName |-> <<"C", "u", "p">>,
     password |-> "secret", adminName |-> DisplayNameOf["p1"],
     maxParticipants |-> 3, playersPerTeam |-> 1, budgetPerPlayer |-> 1,
     categories |->
       << [id |-> "c2", label |-> "A", basePrice |-> 1, players |-> <<"y">>] >>] }

InitRanking == \E input \in RankingInputs : Created(input)

NextRanking ==
  \/ \E c \in Clients, password \in Passwords :
       JoinAuction(c, password, DisplayNameOf[c])
  \/ \E c \in Clients : \E rankingOrder \in AnyRankingOrders :
       SubmitRanking(c, rankingOrder)

SpecRanking == InitRanking /\ [][NextRanking]_vars


----------------------------------------------------------------------------
(* The specification of the ranking stage among three participants *)

\* the state in which the ranking stage opens: three participants joined,
\* the admin resolved the only player unsold, the finalization phase was
\* opened, every participant submitted a team and markAuctionAsRanking ran
RankingStage(input) ==
  /\ auction = Merge(createAuction(input),
       [participantCount |-> 3,
        status |-> "ranking",
        currentPlayerIndex |-> 1,
        countdownEndsAt |-> Null,
        countdownDuration |-> Null,
        completedPlayers |->
          << completedEntryOf(createAuction(input),
                              buildPlayerQueue(input.categories)[1], TRUE) >>])
  /\ participants = [c \in Clients |->
       Some(Merge(NewParticipant(IF c = AdminId THEN adminNameOf(input)
                                 ELSE safeNameOf(DisplayNameOf[c]),
                                 IF c = AdminId THEN "admin" ELSE "player",
                                 input.budgetPerPlayer, input.playersPerTeam),
                  [hasSubmittedTeam |-> TRUE, finalRoster |-> Some(<< >>)]))]
  /\ calls = [c \in Callers |-> Idle]
  /\ now = 0
  /\ auctions = <<nameEntry(input.auctionName)>>
  /\ creating = [k \in Creators |-> Idle]

InitResults == \E input \in RankingInputs : RankingStage(input)

NextResults ==
  \/ \E c \in Clients : \E rankingOrder \in RankingOrders(c) :
       SubmitRanking(c, rankingOrder)
  \/ \E d \in Drivers : ObserveEveryoneRanked(d)
  \/ \E d \in Drivers : FinalizeResultsReadAuction(d)
  \/ \E d \in Drivers : FinalizeResultsReadParticipants(d)
  \/ \E d \in Drivers : FinalizeResultsWrite(d)

SpecResults == InitResults /\ [][NextResults]_vars


----------------------------------------------------------------------------
(* The specification of the timed auction: the clock moves, and the admin  *)
(* page's interval callback finalizes on expiry                            *)

\* Date.now() as the next reader sees it
Tick ==
  /\ now < MaxNow
  /\ now' = now + ClockStepMs
  /\ UNCHANGED <<auction, participants, calls, auctions, creating>>

\* useAdminAutomation's interval callback: on a live auction whose stored
\* countdownEndsAt has passed it calls finalizeCurrentPlayer with
\* forceUnsold = !auction.activeBid, unless its previous call is still out
TimerExpiry(d) ==
  /\ d \in Drivers
  /\ CanCall(d)
  /\ auction.status = "live"
  /\ ~IsNull(auction.countdownEndsAt)
  /\ Val(auction.countdownEndsAt) <= now
  /\ calls' = [calls EXCEPT ![d] =
       [stage |-> "finalize",
        forceUnsold |-> IsNull(auction.activeBid),
        origin |-> "timer",
        slot |-> ActiveKey(auction)]]
  /\ UNCHANGED <<auction, participants, now, auctions, creating>>

\* one participant who drafts a queue of two players
TimedInputs ==
  { [auctionName |-> <<"C", "u", "p">>,
     password |-> "secret", adminName |-> DisplayNameOf["p1"],
     maxParticipants |-> 1, playersPerTeam |-> 2, budgetPerPlayer |-> 1,
     categories |->
       << [id |-> "c1", label |-> "B", basePrice |-> 1, players |-> <<"x">>],
          [id |-> "c2", label |-> "A", basePrice |-> 1, players |-> <<"y">>] >>] }

InitTimed == \E input \in TimedInputs : Created(input)

NextTimed ==
  \/ StartAuction
  \/ \E c \in Clients, amount \in 1..MaxBid : PlaceBid(c, amount)
  \/ \E c \in Clients : SweepReadAuction(c)
  \/ \E c \in Clients : SweepReadParticipants(c)
  \/ \E c \in Callers : FinalizeCurrentPlayer(c)
  \/ PauseAuction
  \/ ResumeAuction
  \/ \E id \in EntryIds : RelistUnsoldPlayer(id)
  \/ Tick
  \/ \E d \in Drivers : TimerExpiry(d)

SpecTimed == InitTimed /\ [][NextTimed]_vars


----------------------------------------------------------------------------
(* The specification of the timer-driven auction: nobody bids, passes or   *)
(* resolves by hand; the admin may pause, resume and relist                *)

\* one participant who drafts a queue of three players
TimerInputs ==
  { [auctionName |-> <<"C", "u", "p">>,
     password |-> "secret", adminName |-> DisplayNameOf["p1"],
     maxParticipants |-> 1, playersPerTeam |-> 3, budgetPerPlayer |-> 1,
     categories |->
       << [id |-> "c1", label |-> "B", basePrice |-> 1, players |-> <<"x">>],
          [id |-> "c2", label |-> "A", basePrice |-> 1,
           players |-> <<"y", "z">>] >>] }

InitTimer == \E input \in TimerInputs : Created(input)

\* a countdown is stored and has not run out at the clock's reading
CountdownPending ==
  ~IsNull(auction.countdownEndsAt) /\ now < Val(auction.countdownEndsAt)

\* the clock moves while a countdown is pending; with none pending no
\* operation reads how far the clock is from a deadline
TickPending == CountdownPending /\ Tick

\* the windows that are still to be opened for the queue, the one of the
\* slot on the block included
WindowsLeft ==
  Max(Len(buildPlayerQueue(auction.categories))
        - Max(auction.currentPlayerIndex, 0), 0)

\* a relist while the clock leaves room for its window and for the windows
\* of the rest of the queue
RelistInTime(id) ==
  /\ now + (START_TIMER_MS + ClockStepMs) * (1 + WindowsLeft) <= MaxNow
  /\ RelistUnsoldPlayer(id)

NextTimer ==
  \/ StartAuction
  \/ TickPending
  \/ \E d \in Drivers : TimerExpiry(d)
  \/ \E d \in Drivers : FinalizeCurrentPlayer(d)
  \/ PauseAuction
  \/ ResumeAuction
  \/ \E id \in EntryIds : RelistInTime(id)

\* the interval callback keeps firing and the clock keeps moving however
\* often a pause interrupts them; a call that was issued commits; a paused
\* auction is resumed
SpecTimer ==
  /\ InitTimer
  /\ [][NextTimer]_vars
  /\ SF_vars(TickPending)
  /\ \A d \in Drivers : SF_vars(TimerExpiry(d))
  /\ \A d \in Drivers : WF_vars(FinalizeCurrentPlayer(d))
  /\ WF_vars(ResumeAuction)


----------------------------------------------------------------------------
(* The specification of the collection: further createAuction calls        *)

\* the names the creators type
AuctionNames ==
  { <<"C", "u", "p">>, <<" ", "c", "U", "P", " ">>, <<" ">>,
    <<"A", "c", "e">>, <<"A", "C", "E">>, <<"B", "a", "y">> }

\* the inputs the creators pass
CreateTries ==
  {[input EXCEPT !.auctionName = auctionName] :
     input \in CreateInputs, auctionName \in AuctionNames}

\* createAuction up to its addDoc: the name is trimmed and folded, the
\* collection is queried for a document of that nameLower, the categories
\* are normalized; any of the three checks failing, the call throws
CreateAuctionQuery(k, input) ==
  /\ creating[k] = Idle
  /\ createAuctionError(auctions, input) = "ok"
  /\ creating' = [creating EXCEPT ![k] =
       [stage |-> "addDoc",
        name |-> nameEntry(input.auctionName).name,
        nameLower |-> nameEntry(input.auctionName).nameLower]]
  /\ UNCHANGED <<auction, participants, calls, now, auctions>>

\* addDoc(collection(db, "auctions"), {...}) of a call whose query came back
\* empty (the admin record of the new document is not followed)
CreateAuctionAdd(k) ==
  /\ creating[k] # Idle
  /\ creating[k].stage = "addDoc"
  /\ Len(auctions) < MaxAuctions
  /\ auctions' = Append(auctions, [name |-> creating[k].name,
                                   nameLower |-> creating[k].nameLower])
  /\ creating' = [creating EXCEPT ![k] = Idle]
  /\ UNCHANGED <<auction, participants, calls, now>>

InitCreate == \E input \in CreateInputs : Created(input)

NextCreate ==
  \/ \E k \in Creators, input \in CreateTries : CreateAuctionQuery(k, input)
  \/ \E k \in Creators : CreateAuctionAdd(k)

SpecCreate == InitCreate /\ [][NextCreate]_vars


----------------------------------------------------------------------------
(* The specification of an auction from the moment its document exists:    *)
(* createAuction writes the document (addDoc) and then, in a second round  *)
(* trip, the admin's participant record (setDoc)                           *)

\* the state after createAuction(input)'s addDoc: the document is in the
\* collection with participantCount 1, the admin's record is still to be set
Added(input) ==
  /\ createAuctionError(<< >>, input) = "ok"
  /\ auction = createAuction(input)
  /\ participants = [c \in Clients |-> Null]
  /\ calls = [c \in Callers |->
       IF c = AdminId
       THEN [stage |-> "setAdmin",
             name |-> adminNameOf(input),
             budgetPerPlayer |-> input.budgetPerPlayer,
             playersPerTeam |-> input.playersPerTeam]
       ELSE Idle]
  /\ now = 0
  /\ auctions = <<nameEntry(input.auctionName)>>
  /\ creating = [k \in Creators |-> Idle]

\* setDoc(participantRef, {...}): the admin's record is written over whatever
\* record the creator's clientId has
CreateAuctionSetAdmin ==
  /\ calls[AdminId].stage = "setAdmin"
  /\ participants' = [participants EXCEPT ![AdminId] =
       Some(NewParticipant(calls[AdminId].name, "admin",
                           calls[AdminId].budgetPerPlayer,
                           calls[AdminId].playersPerTeam))]
  /\ calls' = [calls EXCEPT ![AdminId] = Idle]
  /\ UNCHANGED <<auction, now, auctions, creating>>

InitOpen == \E input \in CreateInputs : Added(input)

NextOpen ==
  \/ CreateAuctionSetAdmin
  \/ \E c \in Clients, password \in Passwords, displayName \in DisplayNames :
       JoinAuction(c, password, displayName)

SpecOpen == InitOpen /\ [][NextOpen]_vars


----------------------------------------------------------------------------
(* The specification of a draft whose queue is longer than a team *)

\* two participants who draft a queue of two players into teams of one
RosterInputs ==
  { [auctionName |-> <<"C", "u", "p">>,
     password |-> "secret", adminName |-> DisplayNameOf["p1"],
     maxParticipants |-> 2, playersPerTeam |-> 1, budgetPerPlayer |-> 3,
     categories |->
       << [id |-> "c1", label |-> "B", basePrice |-> 1, players |-> <<"x">>],
          [id |-> "c2", label |-> "A", basePrice |-> 1, players |-> <<"y">>] >>] }

InitRoster == \E input \in RosterInputs : Created(input)

NextRoster ==
  \/ \E c \in Clients, password \in Passwords :
       JoinAuction(c, password, DisplayNameOf[c])
  \/ StartAuction
  \/ \E c \in Clients, amount \in 1..MaxBid : PlaceBid(c, amount)
  \/ \E c \in Clients : SkipPlayer(c)
  \/ \E c \in Clients : SweepReadAuction(c)
  \/ \E c \in Clients : SweepReadParticipants(c)
  \/ \E c \in Callers : FinalizeCurrentPlayer(c)
  \/ \E id \in EntryIds : RelistUnsoldPlayer(id)

SpecRoster == InitRoster /\ [][NextRoster]_vars


----------------------------------------------------------------------------
(* Reading a step *)

\* the step commits the finalizeCurrentPlayer transaction of caller c
FinalizeCommits(c) == calls[c].stage = "finalize" /\ calls'[c] = Idle

\* the step is an accepted placeBid
BidAccepted == ~IsNull(auction'.activeBid) /\ auction'.activeBid # auction.activeBid

\* the step is the vote transaction of skipPlayer(c) on a live, unpaused auction
VoteCommits(c) ==
  /\ calls[c] = Idle /\ calls'[c] # Idle
  /\ auction.status = "live" /\ ~auction.isPaused
  /\ auction'.skipVotes = auction.skipVotes \cup {c}

\* the step resolves a slot: the ledger changes
SlotResolved == auction'.completedPlayers # auction.completedPlayers

Queue == buildPlayerQueue(auction.categories)

----------------------------------------------------------------------------
(* Claims *)

\* C1: budget conservation. In every reachable state every participant's
\* budgetRemaining equals budgetPerPlayer minus the sum of the prices in
\* their roster.
C1_BudgetConservation ==
  \A c \in Clients :
    Present(c) =>
      Part(c).budgetRemaining = auction.budgetPerPlayer - SumPrices(Part(c).roster)

\* a participant has won two players
C1_Witness ==
  \E c \in Clients : Present(c) /\ Len(Part(c).roster) = 2

\* C2: redundant finalize is safe. A finalizeCurrentPlayer call that was
\* issued for a queue slot which another call has resolved in the meantime
\* (the slot already has its ledger entry) commits as a no-op: it changes
\* neither the auction document nor any participant record.
C2_RedundantFinalizeIsNoOp ==
  [][\A c \in Callers :
       (/\ FinalizeCommits(c)
        /\ ~IsNull(calls[c].slot)
        /\ HasEntry(auction, Val(calls[c].slot)))
       => (auction' = auction /\ participants' = participants)]_vars

\* C3: monotonic bid. Every accepted placeBid leaves the active slot in
\* place, is at least the slot's basePrice and, when a bid was active, is at
\* least that bid's amount + 1, whoever bids.
C3_MonotonicBid ==
  [][BidAccepted =>
       /\ ActiveKey(auction') = ActiveKey(auction)
       /\ Val(auction'.activeBid).amount >= Val(ActiveSlot(auction)).basePrice
       /\ ~IsNull(auction.activeBid) =>
            Val(auction'.activeBid).amount >= Val(auction.activeBid).amount + 1]_vars

\* a participant whose own bid was leading (their sweep read it on this slot)
\* has been outbid by another participant
C3_Witness ==
  \E c1, c2 \in Clients :
    /\ c1 # c2
    /\ calls[c1].stage = "contenders"
    /\ calls[c1].bidderId = c1
    /\ calls[c1].slot = ActiveKey(auction)
    /\ ~IsNull(auction.activeBid)
    /\ Val(auction.activeBid).bidderId = c2
    /\ Val(auction.activeBid).amount >= calls[c1].minimumBid

\* C4: concurrent bids serialize. Once a bid is committed, every placeBid
\* call that commits after it is validated against it: in the state an
\* accepted bid leaves, no call by any participant with an amount below the
\* committed amount + 1 is accepted, so of two racing bids of the same
\* amount the second is rejected.
C4_SecondBidValidatedAgainstFirst ==
  [][BidAccepted =>
       \A c \in Clients : \A amount \in 1..MaxBid :
         amount < Val(auction'.activeBid).amount + 1
           => (placeBidError(c, amount))' # "ok"]_vars

\* a bid at the slot's base price is committed while another participant,
\* who could afford the same amount, has the same slot in front of them
C4_Witness ==
  /\ auction.status = "live" /\ ~auction.isPaused
  /\ ~IsNull(auction.activeBid)
  /\ Val(auction.activeBid).amount = Val(ActiveSlot(auction)).basePrice
  /\ \E c \in Clients :
       /\ Present(c)
       /\ c # Val(auction.activeBid).bidderId
       /\ calls[c] = Idle
       /\ Part(c).budgetRemaining >= Val(auction.activeBid).amount


\* C5: pass quorum with an active bid. A sale that a skipPlayer call triggers
\* (its finalizeCurrentPlayer runs with forceUnsold = false and sells the
\* slot to the bidder X) happens only when participantCount - 1 distinct
\* participants other than X have voted since X's bid was placed, that is
\* when the votes standing against the bid that is sold, X's own excluded,
\* number at least participantCount - 1.
C5_PassSaleOnlyOnQuorum ==
  [][\A c \in Clients :
       (/\ FinalizeCommits(c)
        /\ calls[c].origin = "skip"
        /\ ~calls[c].forceUnsold
        /\ SlotResolved
        /\ ~IsNull(auction.activeBid))
       => Cardinality(auction.skipVotes \ {Val(auction.activeBid).bidderId})
            >= auction.participantCount - 1]_vars

\* C6: skip quorum with no bid. A slot is resolved through skipPlayer with
\* no bid (its finalizeCurrentPlayer runs with forceUnsold = true) only when
\* no bid is active and all participantCount participants have voted on it;
\* the slot is recorded unsold, exactly one slot is resolved and no
\* participant record changes.
C6_SkipResolvesOnlyOnFullVote ==
  [][\A c \in Clients :
       (/\ FinalizeCommits(c)
        /\ calls[c].origin = "skip"
        /\ calls[c].forceUnsold
        /\ SlotResolved)
       => /\ IsNull(auction.activeBid)
          /\ Cardinality(auction.skipVotes) >= auction.participantCount
          /\ calls[c].slot = ActiveKey(auction)
          /\ participants' = participants]_vars

\* C7: queue advance. A finalizeCurrentPlayer that resolves a non-manual
\* queue slot sets currentPlayerIndex to previous + 1; status becomes ended
\* exactly when previous + 1 = queue length, and otherwise stays live with a
\* fresh 60 s countdown, no active bid and no votes.
C7_QueueAdvance ==
  [][\A c \in Callers :
       (/\ FinalizeCommits(c)
        /\ auction.status = "live"
        /\ IsNull(auction.manualPlayer)
        /\ ~IsNull(ActiveSlot(auction)))
       => /\ Len(auction'.completedPlayers) = Len(auction.completedPlayers) + 1
          /\ auction'.currentPlayerIndex = auction.currentPlayerIndex + 1
          /\ (auction'.status = "ended")
               <=> (auction.currentPlayerIndex + 1 = Len(Queue))
          /\ auction'.status \in {"live", "ended"}
          /\ auction'.status = "live" =>
               /\ auction'.countdownEndsAt = Some(now + START_TIMER_MS)
               /\ IsNull(auction'.activeBid)
               /\ auction'.skipVotes = {}]_vars

\* the first of two queue slots has been resolved and the second is on the
\* block with its fresh countdown
C7_Witness ==
  /\ Len(Queue) = 2
  /\ auction.status = "live"
  /\ auction.currentPlayerIndex = 1
  /\ Len(auction.completedPlayers) = 1
  /\ IsNull(auction.manualPlayer)
  /\ auction.countdownEndsAt = Some(now + START_TIMER_MS)

\* C8: relist round-trip. Finalizing a relisted slot that carries an active
\* bid (a finalizeCurrentPlayer that sells) rewrites the ledger entry the
\* slot was relisted from, at its position and under its id, to sold with
\* the bidder as winner and the bid as finalBid; every other entry, the
\* ledger's length and currentPlayerIndex are unchanged.
C8_RelistRoundTrip ==
  [][\A c \in Callers :
       (/\ FinalizeCommits(c)
        /\ auction.status = "live"
        /\ ~IsNull(auction.manualPlayer)
        /\ ~IsNull(auction.activeBid)
        /\ ~calls[c].forceUnsold)
       => /\ Len(auction'.completedPlayers) = Len(auction.completedPlayers)
          /\ auction'.currentPlayerIndex = auction.currentPlayerIndex
          /\ \E i \in 1..Len(auction.completedPlayers) :
               auction.completedPlayers[i].id = Val(auction.manualSourceId)
          /\ \A i \in 1..Len(auction.completedPlayers) :
               IF auction.completedPlayers[i].id = Val(auction.manualSourceId)
               THEN /\ auction.completedPlayers[i].result = "unsold"
                    /\ auction'.completedPlayers[i].id = auction.completedPlayers[i].id
                    /\ auction'.completedPlayers[i].result = "sold"
                    /\ auction'.completedPlayers[i].winnerId
                         = Some(Val(auction.activeBid).bidderId)
                    /\ auction'.completedPlayers[i].finalBid
                         = Some(Val(auction.activeBid).amount)
               ELSE auction'.completedPlayers[i] = auction.completedPlayers[i]]_vars

\* a participant bought the second queue slot first and the first one later:
\* the first slot went unsold, was relisted and then sold in place
C8_Witness ==
  /\ Len(auction.completedPlayers) = 2
  /\ IsNull(auction.manualPlayer)
  /\ \E c \in Clients :
       /\ Present(c)
       /\ Len(Part(c).roster) = 2
       /\ Part(c).roster[1].playerName = auction.completedPlayers[2].playerName
       /\ Part(c).roster[2].playerName = auction.completedPlayers[1].playerName
       /\ auction.completedPlayers[1].result = "sold"
       /\ auction.completedPlayers[1].winnerId = Some(c)


\* the place of a status in the order lobby < live < ended < ranking < results
Rank(status) ==
  CASE status = "lobby" -> 0
    [] status = "live" -> 1
    [] status = "ended" -> 2
    [] status = "ranking" -> 3
    [] status = "results" -> 4

\* the step is a relistUnsoldPlayer of an unsold ledger entry
RelistCommits ==
  /\ ~IsNull(auction'.manualPlayer)
  /\ ~IsNull(auction'.manualSourceId)
  /\ relistError(auction, Val(auction'.manualSourceId)) = "ok"
  /\ auction'.status = "live"
  /\ participants' = participants
  /\ calls' = calls

\* the step is the write of a markAuctionAsRanking call issued earlier
MarkRankingCommits ==
  /\ \E d \in Drivers : calls[d].stage = "markRanking" /\ calls'[d] = Idle
  /\ auction'.status = "ranking"

C10_ResultsIsTerminal ==
  [][auction.status = "results" => auction'.status = "results"]_vars


\* C11: currentPlayerIndex never decreases, and no step taken while a
\* manualPlayer overlay is active changes it (neither the relist that
\* installs an overlay nor the finalize of a manual slot moves it).
C11_IndexMonotoneAndHeldUnderOverlay ==
  [][/\ auction'.currentPlayerIndex >= auction.currentPlayerIndex
     /\ (~IsNull(auction.manualPlayer) \/ ~IsNull(auction'.manualPlayer))
          => auction'.currentPlayerIndex = auction.currentPlayerIndex]_vars

\* an overlay is active over a queue whose pointer has moved, and a bid has
\* been placed on the relisted player
C11_Witness ==
  /\ ~IsNull(auction.manualPlayer)
  /\ auction.currentPlayerIndex = 1
  /\ ~IsNull(auction.activeBid)


\* the sold ledger entries won by participant w
SoldTo(w) ==
  {i \in 1..Len(auction.completedPlayers) :
     /\ auction.completedPlayers[i].result = "sold"
     /\ auction.completedPlayers[i].winnerId = Some(w)}

\* the roster positions of w that hold the player and price of ledger entry i
RosterMatches(w, i) ==
  {k \in 1..Len(Part(w).roster) :
     /\ Part(w).roster[k].playerName = auction.completedPlayers[i].playerName
     /\ Part(w).roster[k].categoryLabel = auction.completedPlayers[i].categoryLabel
     /\ Some(Part(w).roster[k].price) = auction.completedPlayers[i].finalBid}

\* C12: a sale is never partially applied. In every reachable state every
\* sold ledger entry names a winner who is a participant and whose roster
\* holds exactly one entry for that player at the final bid, and every
\* roster entry belongs to exactly one sold ledger entry of its owner.
C12_SalesAreWhole ==
  /\ \A i \in 1..Len(auction.completedPlayers) :
       auction.completedPlayers[i].result = "sold" =>
         /\ ~IsNull(auction.completedPlayers[i].winnerId)
         /\ ~IsNull(auction.completedPlayers[i].finalBid)
         /\ Val(auction.completedPlayers[i].winnerId) \in Clients
         /\ Present(Val(auction.completedPlayers[i].winnerId))
         /\ Cardinality(RosterMatches(Val(auction.completedPlayers[i].winnerId), i)) = 1
  /\ \A w \in Clients :
       Present(w) =>
         /\ Len(Part(w).roster) = Cardinality(SoldTo(w))
         /\ \A k \in 1..Len(Part(w).roster) :
              Cardinality({i \in SoldTo(w) : k \in RosterMatches(w, i)}) = 1

\* one player went unsold and the other was sold, while a second finalize
\* for the auction is still in flight
C12_Witness ==
  /\ Len(auction.completedPlayers) = 2
  /\ \E i, j \in 1..2 :
       /\ auction.completedPlayers[i].result = "sold"
       /\ auction.completedPlayers[j].result = "unsold"
  /\ \E c \in Callers : calls[c].stage = "finalize"


\* C13: join capacity and rejoin. A client without a record gets one only
\* while participantCount < maxParticipants (a join to a full auction changes
\* nothing), and then participantCount grows by one; a client with a record
\* can always rejoin with the auction's password, full or not, and a rejoin
\* leaves the auction document, participantCount and every field of the
\* record other than the display name as they were.
C13_JoinCapacityAndRejoin ==
  [][/\ \A c \in Clients :
          (~Present(c) /\ Present(c)') =>
            /\ auction.participantCount < auction.maxParticipants
            /\ auction'.participantCount = auction.participantCount + 1
     /\ auction'.participantCount # auction.participantCount =>
          \E c \in Clients : ~Present(c) /\ Present(c)'
     /\ \A c \in Clients :
          Present(c) =>
            /\ joinAuctionError(c, auction.password) = "ok"
            /\ (Present(c)' /\ Part(c)'.name # Part(c).name) =>
                 /\ auction' = auction
                 /\ Part(c)' = [Part(c) EXCEPT !.name = Part(c)'.name]
                 /\ \A o \in Clients \ {c} : participants'[o] = participants[o]]_vars

\* the auction is full and the admin, who has bought a player and submitted
\* a team and a ranking, now goes by a name typed at a rejoin
C13_Witness ==
  /\ auction.participantCount = auction.maxParticipants
  /\ Part(AdminId).name = <<"B">>
  /\ Len(Part(AdminId).roster) = 1
  /\ Part(AdminId).budgetRemaining < auction.budgetPerPlayer
  /\ Part(AdminId).hasSubmittedTeam
  /\ Part(AdminId).rankingSubmitted
  /\ Part(AdminId).rankings # {}


\* the base price of the slot on the block: the relisted player's when an
\* overlay is set, otherwise that of the queue slot at currentPlayerIndex
\* (0 when there is neither)
BlockBasePrice ==
  IF ~IsNull(auction.manualPlayer) THEN Val(auction.manualPlayer).basePrice
  ELSE IF auction.currentPlayerIndex >= 0 /\ auction.currentPlayerIndex < Len(Queue)
       THEN Queue[auction.currentPlayerIndex + 1].basePrice
       ELSE 0

\* there is a slot on the block
BlockOccupied ==
  \/ ~IsNull(auction.manualPlayer)
  \/ auction.currentPlayerIndex >= 0 /\ auction.currentPlayerIndex < Len(Queue)

\* C14: placeBid rejections. A bid is accepted (the only change a placeBid
\* makes) only when status is live, the auction is not paused, a slot is on
\* the block, the amount is at least max(basePrice, activeBid.amount + 1 if a
\* bid exists else basePrice) for the base price of the manual player when
\* one is set and of the queue slot at currentPlayerIndex otherwise, and the
\* amount is at most the bidder's budgetRemaining; a call that misses any of
\* these changes neither the auction nor any participant record.
C14_BidAcceptedOnlyWhenValid ==
  [][BidAccepted =>
       /\ auction.status = "live"
       /\ ~auction.isPaused
       /\ BlockOccupied
       /\ Val(auction'.activeBid).amount >= BlockBasePrice
       /\ ~IsNull(auction.activeBid) =>
            Val(auction'.activeBid).amount >= Val(auction.activeBid).amount + 1
       /\ Present(Val(auction'.activeBid).bidderId)
       /\ Val(auction'.activeBid).amount
            <= Part(Val(auction'.activeBid).bidderId).budgetRemaining
       /\ participants' = participants
       /\ \A c \in Clients : \A amount \in 1..MaxBid :
            (\/ auction.status # "live"
             \/ auction.isPaused
             \/ ~BlockOccupied
             \/ amount < BlockBasePrice
             \/ ~IsNull(auction.activeBid) /\ amount < Val(auction.activeBid).amount + 1
             \/ Present(c) /\ amount > Part(c).budgetRemaining)
            => auction'.activeBid # Some([amount |-> amount, bidderId |-> c])]_vars

\* a relisted player carries a bid that takes all the bidder has left, after
\* the bidder already bought a player
C14_Witness ==
  /\ ~IsNull(auction.manualPlayer)
  /\ ~IsNull(auction.activeBid)
  /\ Present(Val(auction.activeBid).bidderId)
  /\ Val(auction.activeBid).amount
       = Part(Val(auction.activeBid).bidderId).budgetRemaining
  /\ Len(Part(Val(auction.activeBid).bidderId).roster) = 1

\* C15: roster-reserve rule. placeBid accepts no amount greater than the
\* bidder's budgetRemaining - max(playersNeeded - 1, 0).
C15_BidKeepsRosterReserve ==
  [][BidAccepted =>
       Val(auction'.activeBid).amount
         <= Part(Val(auction'.activeBid).bidderId).budgetRemaining
            - Max(Part(Val(auction'.activeBid).bidderId).playersNeeded - 1, 0)]_vars


\* the ledger positions that hold entry id with result unsold
UnsoldAt(id) ==
  {i \in 1..Len(auction.completedPlayers) :
     /\ auction.completedPlayers[i].id = id
     /\ auction.completedPlayers[i].result = "unsold"}

\* C16: relistUnsoldPlayer. An overlay is installed only from a ledger entry
\* that exists and is unsold (a call for a missing or sold entry changes
\* nothing); the step that installs it makes the relisted player the active
\* slot, with the entry's name, category and base price and manualSourceId =
\* the entry id, sets status live, clears activeBid, skipVotes and the pause
\* state, and leaves the ledger and the participants alone. While an overlay
\* stands, its source entry is in the ledger, unsold.
C16_RelistOnlyUnsold ==
  [][/\ ~IsNull(auction.manualPlayer) =>
          /\ auction.manualSourceId = Some(Val(auction.manualPlayer).sourceId)
          /\ UnsoldAt(Val(auction.manualPlayer).sourceId) # {}
     /\ (~IsNull(auction'.manualPlayer) /\ auction'.manualPlayer # auction.manualPlayer) =>
          LET id == Val(auction'.manualPlayer).sourceId
          IN /\ UnsoldAt(id) # {}
             /\ \A i \in UnsoldAt(id) :
                  /\ Val(auction'.manualPlayer).name = auction.completedPlayers[i].playerName
                  /\ Val(auction'.manualPlayer).categoryLabel
                       = auction.completedPlayers[i].categoryLabel
                  /\ Val(auction'.manualPlayer).basePrice
                       = auction.completedPlayers[i].basePrice
             /\ auction'.manualSourceId = Some(id)
             /\ ActiveSlot(auction') = auction'.manualPlayer
             /\ auction'.status = "live"
             /\ IsNull(auction'.activeBid)
             /\ auction'.skipVotes = {}
             /\ ~auction'.isPaused
             /\ IsNull(auction'.pausedRemainingMs)
             /\ auction'.countdownEndsAt = Some(now + START_TIMER_MS)
             /\ auction'.completedPlayers = auction.completedPlayers
             /\ auction'.currentPlayerIndex = auction.currentPlayerIndex
             /\ participants' = participants]_vars

\* the ledger holds a sold and an unsold entry and the unsold one has just
\* been relisted: it is on the block with no bid, no votes and no pause
C16_Witness ==
  /\ Len(auction.completedPlayers) = 2
  /\ \E i \in 1..2 : auction.completedPlayers[i].result = "sold"
  /\ ~IsNull(auction.manualPlayer)
  /\ UnsoldAt(Val(auction.manualPlayer).sourceId) # {}
  /\ auction.status = "live"
  /\ IsNull(auction.activeBid)
  /\ auction.skipVotes = {}
  /\ ~auction.isPaused


\* C17: manual-slot finalize. A finalizeCurrentPlayer issued for a manual
\* (relisted) slot and resolving it clears the overlay and sets status to ended exactly when
\* the queue was already exhausted (currentPlayerIndex is past the last
\* queue slot, every queue slot has its ledger entry); otherwise status
\* stays live and the queue slot at currentPlayerIndex is the active slot
\* again.
C17_ManualFinalizeEndsOnlyExhaustedQueue ==
  [][\A c \in Callers :
       (/\ FinalizeCommits(c)
        /\ auction.status = "live"
        /\ ~IsNull(auction.manualPlayer)
        /\ calls[c].slot = ActiveKey(auction))
       => /\ IsNull(auction'.manualPlayer)
          /\ IsNull(auction'.manualSourceId)
          /\ auction'.status \in {"live", "ended"}
          /\ (auction'.status = "ended")
               <=> (auction.currentPlayerIndex >= Len(Queue))
          /\ auction'.status = "live" =>
               /\ ~IsNull(ActiveSlot(auction'))
               /\ Val(ActiveSlot(auction')).key
                    = Queue[auction.currentPlayerIndex + 1].key]_vars


\* the points map the ranking rule assigns to an order among P participants:
\* the target at 0-based position i gets max(P - 1 - i, 1)
ReferencePoints(order, P) ==
  {[id |-> order[i], points |-> Max(P - 1 - (i - 1), 1)] : i \in 1..Len(order)}

\* C18: ranking points. Every submitRanking(c, order) step, for any order
\* that names each target at most once and any participantCount P >= 1,
\* stores for c exactly the map order[i] -> max(P - 1 - i, 1) over the
\* 0-based positions i, sets rankingSubmitted and changes nothing else.
C18_RankingPoints ==
  [][\A c \in Clients : \A order \in AnyRankingOrders :
       SubmitRanking(c, order) =>
         /\ auction.participantCount >= 1
         /\ Part(c)'.rankings = ReferencePoints(order, auction.participantCount)
         /\ Part(c)'.rankingSubmitted
         /\ Part(c)' = [Part(c) EXCEPT !.rankings = Part(c)'.rankings,
                                       !.rankingSubmitted = TRUE]
         /\ \A o \in Clients \ {c} : participants'[o] = participants[o]
         /\ auction' = auction]_vars

\* among three participants one holds the points 2 and 1 for the other two,
\* and another, who ranked three ids, holds the floor of 1 for the last
C18_Witness ==
  /\ auction.participantCount = 3
  /\ \E c \in Clients :
       /\ Present(c)
       /\ Part(c).rankingSubmitted
       /\ \E a, b \in Clients \ {c} :
            Part(c).rankings = {[id |-> a, points |-> 2], [id |-> b, points |-> 1]}
  /\ \E c \in Clients :
       /\ Present(c)
       /\ Cardinality(Part(c).rankings) = 3
       /\ Cardinality({r \in Part(c).rankings : r.points = 1}) = 2


\* the points that voter's rankings map assigns to target (0 when none)
PointsFrom(ps, voter, target) ==
  IF \E r \in Val(ps[voter]).rankings : r.id = target
  THEN (CHOOSE r \in Val(ps[voter]).rankings : r.id = target).points
  ELSE 0

\* the sum over the voters of the points each assigns to target
RECURSIVE TotalFrom(_, _, _)
TotalFrom(ps, voters, target) ==
  IF voters = {} THEN 0
  ELSE LET v == CHOOSE x \in voters : TRUE
       IN PointsFrom(ps, v, target) + TotalFrom(ps, voters \ {v}, target)

\* rows is a leaderboard of the participant records ps: one row per
\* participant, points = the sum of the points all participants' rankings
\* assign to them, ordered by points descending, rank = 1-based position
IsLeaderboard(rows, ps) ==
  LET present == {id \in Clients : ~IsNull(ps[id])}
  IN /\ Len(rows) = Cardinality(present)
     /\ {rows[i].participantId : i \in 1..Len(rows)} = present
     /\ \A i \in 1..Len(rows) :
          /\ rows[i].points = TotalFrom(ps, present, rows[i].participantId)
          /\ rows[i].rank = i
     /\ \A i, j \in 1..Len(rows) : i < j => rows[i].points >= rows[j].points

\* the step is the write of a finalizeResults call
ResultsWriteCommits ==
  \E d \in Drivers : calls[d].stage = "writeResults" /\ calls'[d] = Idle

\* C19: leaderboard. finalizeResults writes only when status is ranking: its
\* write then sets status to results and results to the leaderboard of the
\* participants (one row each, points = the sum of the points assigned to
\* them, descending, rank = position); when status is not ranking it changes
\* nothing.
C19_ResultsWrittenOnlyInRanking ==
  [][ResultsWriteCommits =>
       /\ auction.status = "ranking"
       /\ auction'.status = "results"
       /\ IsLeaderboard(auction'.results, participants)]_vars

\* the tally half of C19, read for the records finalizeResults read: the
\* rows it computes are the leaderboard of the participants as they were at
\* its getDocs
C19_TallyIsLeaderboardOfRead ==
  [][\A d \in Drivers :
       (calls[d].stage = "tally" /\ calls'[d].stage = "writeResults")
         => IsLeaderboard(calls'[d].results, participants)]_vars

\* the step takes the auction out of the lobby into the live stage
StartCommits ==
  auction.status = "lobby" /\ auction'.status = "live"

\* C20: startAuction. It succeeds only when status is lobby and the built
\* queue is not empty; the started auction is live at currentPlayerIndex 0
\* with a 60-second countdown, no active bid, no skip votes, not paused and
\* no manual overlay, and the participants are untouched; no step returns
\* the status to lobby, so an auction is started at most once.
C20_StartOnlyFromLobbyOnce ==
  [][/\ StartAuction => (auction.status = "lobby" /\ Len(Queue) > 0)
     /\ StartCommits =>
          /\ Len(Queue) > 0
          /\ auction'.currentPlayerIndex = 0
          /\ auction'.countdownEndsAt = Some(now + 60000)
          /\ auction'.countdownDuration = Some(60000)
          /\ IsNull(auction'.activeBid)
          /\ auction'.skipVotes = {}
          /\ ~auction'.isPaused
          /\ IsNull(auction'.manualPlayer)
          /\ IsNull(auction'.manualSourceId)
          /\ participants' = participants
     /\ auction'.status = "lobby" => auction.status = "lobby"]_vars

\* a started auction on which nothing has happened yet: the first slot is on
\* the block under the opening countdown
C20_Witness ==
  /\ auction.status = "live"
  /\ auction.currentPlayerIndex = 0
  /\ auction.countdownEndsAt = Some(now + 60000)
  /\ IsNull(auction.activeBid)
  /\ auction.skipVotes = {}
  /\ auction.completedPlayers = << >>
  /\ Len(Queue) = 2

\* C22: wrong-phase tolerance. A finalizeCurrentPlayer transaction that
\* commits when status is not live, and a skipPlayer transaction that commits
\* when status is not live or the auction is paused, raise nothing and leave
\* the auction document and every participant record as they were; the
\* skipPlayer call goes on to no finalize.
C22_WrongPhaseCallsChangeNothing ==
  [][/\ \A c \in Callers :
          (FinalizeCommits(c) /\ auction.status # "live")
            => /\ finalizeError(auction, participants, calls[c].forceUnsold) = "ok"
               /\ auction' = auction
               /\ participants' = participants
     /\ \A c \in Clients :
          (SkipPlayer(c) /\ (auction.status # "live" \/ auction.isPaused))
            => /\ auction' = auction
               /\ participants' = participants
               /\ calls'[c].stage # "finalize"]_vars

\* a pass was called in the lobby, where no bid can have been placed: the
\* call is at its sweep and no vote is recorded
C22_Witness ==
  /\ auction.status = "lobby"
  /\ auction.skipVotes = {}
  /\ \E c \in Clients : calls[c].stage = "sweep"

\* C23: transition to ranking. Status changes to ranking only in a step
\* taken from status ended with finalizationOpen true and with every
\* participant's hasSubmittedTeam true in the state the step is taken from.
C23_RankingOnlyFromEndedWithAllTeams ==
  [][(auction'.status = "ranking" /\ auction.status # "ranking")
       => /\ auction.status = "ended"
          /\ auction.finalizationOpen
          /\ everyoneSubmitted(participants)]_vars

\* C24: results are written once. After finalizeResults has set status to
\* results, no step changes the stored results array.
C24_ResultsWrittenOnce ==
  [][auction.status = "results" => auction'.results = auction.results]_vars

\* C25: openFinalizationPhase. It succeeds only when status is ended; it then
\* sets finalizationOpen to true and changes nothing else in the auction
\* document and no participant record, and when the phase is already open it
\* changes nothing at all.
C25_OpenFinalizationOnlyWhenEnded ==
  [][OpenFinalizationPhase =>
       /\ auction.status = "ended"
       /\ auction' = [auction EXCEPT !.finalizationOpen = TRUE]
       /\ participants' = participants
       /\ auction.finalizationOpen => auction' = auction]_vars

\* the finalization phase is open on an ended auction
C25_Witness ==
  /\ auction.status = "ended"
  /\ auction.finalizationOpen
  /\ auction.currentPlayerIndex = Len(Queue)
  /\ \A c \in Callers : calls[c] = Idle

\* the step changes the slot on the block: the queue pointer moves, a manual
\* overlay is installed or cleared, or the auction ends
SlotTransition ==
  \/ auction'.currentPlayerIndex # auction.currentPlayerIndex
  \/ auction'.manualPlayer # auction.manualPlayer
  \/ \E id \in EntryIds : RelistUnsoldPlayer(id)
  \/ auction'.status = "ended" /\ auction.status # "ended"

\* C28: active bid lifetime. activeBid goes from non-null to null only in a
\* step that changes the slot on the block or ends the auction, and right
\* after every such step activeBid is null and skipVotes is empty: no bid and
\* no vote carries over to another slot.
C28_BidAndVotesClearedAtSlotTransitions ==
  [][/\ (~IsNull(auction.activeBid) /\ IsNull(auction'.activeBid))
          => SlotTransition
     /\ SlotTransition
          => (IsNull(auction'.activeBid) /\ auction'.skipVotes = {})]_vars

\* the second queue slot is on the block with no bid and no vote on it, after
\* the first was sold to its bidder
C28_Witness ==
  /\ auction.status = "live"
  /\ auction.currentPlayerIndex = 1
  /\ IsNull(auction.manualPlayer)
  /\ IsNull(auction.activeBid)
  /\ auction.skipVotes = {}
  /\ Len(auction.completedPlayers) = 1
  /\ auction.completedPlayers[1].result = "sold"

\* C29: lock-resolution sweep. A finalizeCurrentPlayer issued by the sweep
\* resolves only the slot the sweep inspected, with a bid on it that no
\* participant other than the bidder can top (none has budgetRemaining >=
\* max(basePrice, amount + 1)) in the state in which it commits, and records
\* that slot sold to that bidder at that amount.
C29_SweepSellsOnlyTheLockedSlot ==
  [][\A c \in Clients :
       (/\ FinalizeCommits(c)
        /\ calls[c].origin = "sweep"
        /\ SlotResolved)
       => /\ calls[c].slot = ActiveKey(auction)
          /\ ~IsNull(auction.activeBid)
          /\ ~contenders(participants, Val(auction.activeBid).bidderId,
                         Max(BlockBasePrice, Val(auction.activeBid).amount + 1))
          /\ \E i \in 1..Len(auction'.completedPlayers) :
               /\ auction'.completedPlayers[i].result = "sold"
               /\ auction'.completedPlayers[i].id = Val(calls[c].slot)
               /\ auction'.completedPlayers[i].winnerId
                    = Some(Val(auction.activeBid).bidderId)
               /\ auction'.completedPlayers[i].finalBid
                    = Some(Val(auction.activeBid).amount)]_vars

\* the time left on the countdown of the auction at the clock's reading,
\* with the fallback pauseAuction takes when no countdown is stored
RemainingAtPause ==
  IF ~IsNull(auction.countdownEndsAt)
  THEN Max(Val(auction.countdownEndsAt) - now, 0)
  ELSE IF ~IsNull(auction.countdownDuration) THEN Val(auction.countdownDuration)
       ELSE 60000

\* C21: pause/resume frame. pauseAuction changes state only when status is
\* live and isPaused is false: it then stores the remaining time, clears
\* countdownEndsAt and sets isPaused, and changes nothing else. resumeAuction
\* changes state only when status is live and isPaused is true: it opens a
\* countdown of exactly the stored remaining time and changes nothing else.
\* While the auction stays paused the stored remaining time, activeBid,
\* skipVotes, currentPlayerIndex, manualPlayer and completedPlayers stay as
\* they are, so a pause followed by a resume leaves them and every
\* participant record unchanged and the resumed countdown has the length
\* captured at the pause.
C21_PauseResumeFrame ==
  [][/\ PauseAuction =>
          /\ auction.status = "live" /\ ~auction.isPaused
          /\ auction' = [auction EXCEPT
                           !.isPaused = TRUE,
                           !.pausedRemainingMs = Some(RemainingAtPause),
                           !.countdownEndsAt = Null]
          /\ participants' = participants
     /\ ResumeAuction =>
          /\ auction.status = "live" /\ auction.isPaused
          /\ ~IsNull(auction.pausedRemainingMs)
          /\ auction' = [auction EXCEPT
                           !.isPaused = FALSE,
                           !.pausedRemainingMs = Null,
                           !.countdownEndsAt =
                              Some(now + Val(auction.pausedRemainingMs)),
                           !.countdownDuration = auction.pausedRemainingMs]
          /\ participants' = participants
     /\ (auction.isPaused /\ auction'.isPaused) =>
          /\ auction'.pausedRemainingMs = auction.pausedRemainingMs
          /\ auction'.activeBid = auction.activeBid
          /\ auction'.skipVotes = auction.skipVotes
          /\ auction'.currentPlayerIndex = auction.currentPlayerIndex
          /\ auction'.manualPlayer = auction.manualPlayer
          /\ auction'.completedPlayers = auction.completedPlayers]_vars

\* the auction was paused one clock step into the opening window and resumed
\* later: the countdown runs from the time of the resume for the time that
\* was left at the pause
C21_Witness ==
  /\ auction.status = "live"
  /\ ~auction.isPaused
  /\ auction.countdownDuration = Some(START_TIMER_MS - ClockStepMs)
  /\ auction.countdownEndsAt = Some(now + START_TIMER_MS - ClockStepMs)
  /\ now > ClockStepMs

\* C30: finalize is the authority on window closure. A finalizeCurrentPlayer
\* issued by the admin page on timer expiry resolves a slot only if the
\* stored countdownEndsAt has passed in the state in which it commits.
C30_TimerFinalizeOnlyAfterExpiry ==
  [][\A d \in Drivers :
       (/\ FinalizeCommits(d)
        /\ calls[d].origin = "timer"
        /\ SlotResolved)
       => /\ ~IsNull(auction.countdownEndsAt)
          /\ Val(auction.countdownEndsAt) <= now]_vars

\* C26: timer-driven progress. With the admin page's interval callback
\* firing, the clock moving and the auction never left paused, a live
\* auction eventually reaches status ended, whether or not anybody bids,
\* passes or resolves by hand.
C26_TimerDrivesToEnd ==
  (auction.status = "live") ~> (auction.status = "ended")

\* C27: auction names are unique case-insensitively. No two documents of the
\* collection share a nameLower.
C27_NamesUnique ==
  \A i, j \in 1..Len(auctions) :
    i # j => auctions[i].nameLower # auctions[j].nameLower

\* the step commits caller c's finalizeCurrentPlayer and records the slot on
\* the block unsold
RecordsUnsold(c) ==
  /\ FinalizeCommits(c)
  /\ auction.status = "live"
  /\ ~IsNull(ActiveSlot(auction))
  /\ ~shouldSell(auction, calls[c].forceUnsold)
  /\ auction' # auction

\* C31: no accepted bid is silently discarded. A finalizeCurrentPlayer that
\* a pass quorum or the admin page's timer triggered records a slot unsold
\* only if activeBid is null in the state in which it commits.
C31_UnsoldOnlyWithoutBid ==
  [][\A c \in Callers :
       (RecordsUnsold(c) /\ calls[c].origin \in {"skip", "timer"})
       => IsNull(auction.activeBid)]_vars

\* C32: bids stay affordable. In every reachable state every participant's
\* budgetRemaining is at least 0, and an active bid's amount is at most the
\* budgetRemaining of the participant named by its bidderId.
C32_BidsStayAffordable ==
  /\ \A c \in Clients : Present(c) => Part(c).budgetRemaining >= 0
  /\ ~IsNull(auction.activeBid) =>
       /\ Present(Val(auction.activeBid).bidderId)
       /\ Val(auction.activeBid).amount
            <= Part(Val(auction.activeBid).bidderId).budgetRemaining

\* a participant who has paid for a player bids all that is left of their
\* budget on the next one
C32_Witness ==
  /\ ~IsNull(auction.activeBid)
  /\ LET bidder == Part(Val(auction.activeBid).bidderId)
     IN /\ Len(bidder.roster) > 0
        /\ bidder.budgetRemaining < auction.budgetPerPlayer
        /\ Val(auction.activeBid).amount = bidder.budgetRemaining

\* C33: an ended auction has resolved its whole queue. When status is ended
\* the ledger completedPlayers holds an entry, sold or unsold, for the key of
\* every slot of the player queue.
C33_EndedMeansQueueResolved ==
  auction.status = "ended" =>
    \A i \in 1..Len(Queue) : HasEntry(auction, Queue[i].key)

\* C34: the ledger tracks the queue. In every reachable state
\* completedPlayers has exactly max(currentPlayerIndex, 0) entries with
\* pairwise distinct ids, and its k-th entry has the id, the player name and
\* the category of the k-th slot of buildPlayerQueue(categories).
C34_LedgerTracksQueue ==
  LET ledger == auction.completedPlayers
  IN /\ Len(ledger) = Max(auction.currentPlayerIndex, 0)
     /\ \A j, k \in 1..Len(ledger) : j # k => ledger[j].id # ledger[k].id
     /\ \A k \in 1..Len(ledger) :
          /\ k <= Len(Queue)
          /\ ledger[k].id = Queue[k].key
          /\ ledger[k].playerName = Queue[k].name
          /\ ledger[k].categoryLabel = Queue[k].categoryLabel

\* the whole queue of two is in the ledger, its first slot sold, and the
\* second, relisted, is on the block again with a finalize call on its way
C34_Witness ==
  /\ Len(auction.completedPlayers) = 2
  /\ auction.completedPlayers[1].result = "sold"
  /\ auction.manualSourceId = Some(auction.completedPlayers[2].id)
  /\ \E c \in Callers : calls[c].stage = "finalize"

\* C35: a countdown is armed while bidding is open. In every reachable state
\* with status live and isPaused false, countdownEndsAt is non-null; and
\* whenever isPaused is true, countdownEndsAt is null and pausedRemainingMs
\* is non-null.
C35_CountdownArmedWhileOpen ==
  /\ (auction.status = "live" /\ ~auction.isPaused)
       => ~IsNull(auction.countdownEndsAt)
  /\ auction.isPaused
       => (IsNull(auction.countdownEndsAt) /\ ~IsNull(auction.pausedRemainingMs))

\* C36: the runtime state of a slot exists only while live. Whenever status
\* is not live (lobby, ended, ranking, results), activeBid is null, skipVotes
\* is empty, manualPlayer is null and isPaused is false.
C36_LiveOnlyRuntimeState ==
  auction.status # "live" =>
    /\ IsNull(auction.activeBid)
    /\ auction.skipVotes = {}
    /\ IsNull(auction.manualPlayer)
    /\ ~auction.isPaused

\* C37: finalizationOpen is true only while status is ended. In every
\* reachable state finalizationOpen implies status = ended.
C37_FinalizationOpenOnlyWhenEnded ==
  auction.finalizationOpen => auction.status = "ended"

\* C38: the participant count is exact and bounded. In every reachable state
\* participantCount equals the number of participant records of the auction
\* and is at most maxParticipants.
C38_ParticipantCountExact ==
  /\ auction.participantCount = Cardinality({c \in Clients : Present(c)})
  /\ auction.participantCount <= auction.maxParticipants

\* C39: roster slots bookkeeping. In every reachable state every participant
\* satisfies playersNeeded = max(playersPerTeam - number of roster entries, 0).
C39_PlayersNeededTracksRoster ==
  \A c \in Clients :
    Present(c) =>
      Part(c).playersNeeded
        = Max(auction.playersPerTeam - Len(Part(c).roster), 0)

\* a participant has won more players than a team holds
C39_Witness ==
  \E c \in Clients :
    /\ Present(c)
    /\ Len(Part(c).roster) > auction.playersPerTeam
    /\ Part(c).playersNeeded = 0

\* C40: a pause freezes resolution by participants. While isPaused is true
\* (from the commit of pauseAuction to the commit of resumeAuction) no
\* finalizeCurrentPlayer that a pass quorum or a lock sweep triggered
\* resolves the slot on the block: such a call, committing in a paused
\* auction, changes neither the auction nor any participant record.
C40_PauseFreezesResolution ==
  [][\A c \in Clients :
       (/\ FinalizeCommits(c)
        /\ calls[c].origin \in {"skip", "sweep"}
        /\ auction.isPaused)
       => (auction' = auction /\ participants' = participants)]_vars

====
